---- MODULE Spec2Model ----
(***************************************************************************)
(* A model of track17.py (src/track17/scripts/track17.py): the local       *)
(* parcel-tracking store (packages, events, payloads), the reconciliation  *)
(* of one provider item into it (apply_update_from_trackinfo), the webhook *)
(* ingestion path (ingest_payload), the add/remove commands and the        *)
(* webhook receiver's spool directory.                                     *)
(*                                                                         *)
(* Conventions.  Python's None, SQL NULL and a missing dict key are the    *)
(* string NONE.  Text values are TLA+ strings; a JSON value that may be a  *)
(* string or an object (description_translation, location) is a record     *)
(* with a kind.  Timestamps written by _utc_now_iso (created_at,           *)
(* updated_at, last_update_at, received_at) are not modelled: no modelled  *)
(* operation reads them.                                                   *)
(***************************************************************************)
EXTENDS Integers, Sequences, FiniteSets, TLC

VARIABLES
    packages,     \* the packages table: a set of rows
    events,       \* the events table: a set of rows
    payloads,     \* the payloads table: a set of rows
    nextPkgId,    \* AUTOINCREMENT counter of packages.id
    nextEventId,  \* AUTOINCREMENT counter of events.id
    inbox,        \* the spool directory: a set of files [stem, suffix, content]
    threads,      \* the receiver's request threads: each one's position in spool
    processed,    \* the processed directory: a set of files
    run,          \* the command in progress (process-inbox, sync): its position
    http,         \* the requests sent to the provider, and the last call's outcome
    now,          \* the receiver's clock, in seconds
    last          \* history: the last operation, its inputs and its outcome

vars == <<packages, events, payloads, nextPkgId, nextEventId,
          inbox, threads, processed, run, http, now, last>>

-----------------------------------------------------------------------------
(* Python values *)

NONE == "<None>"

\* bool(x) of an optional string: None and "" are falsy.
Truthy(x) == x # NONE /\ x # ""

\* Python's `a or b`.
Or(a, b) == IF Truthy(a) THEN a ELSE b

\* A value that is absent, a string, or a dict (a non-empty JSON object).
\* description_translation: keys description, translated.
NoDT == [kind |-> "none", s |-> NONE, description |-> NONE, translated |-> NONE]
StrDT(x) == [kind |-> "str", s |-> x, description |-> NONE, translated |-> NONE]
DictDT(d, t) == [kind |-> "dict", s |-> NONE, description |-> d, translated |-> t]

\* location: keys address, city, country.
NoLoc == [kind |-> "none", s |-> NONE, address |-> NONE, city |-> NONE, country |-> NONE]
StrLoc(x) == [kind |-> "str", s |-> x, address |-> NONE, city |-> NONE, country |-> NONE]
DictLoc(a, c, k) == [kind |-> "dict", s |-> NONE, address |-> a, city |-> c, country |-> k]

\* bool(v) of such a value.
TruthyV(v) == v.kind = "dict" \/ (v.kind = "str" /\ v.s # "")

-----------------------------------------------------------------------------
(* Field extraction *)

\* extract_latest_fields: track_info is a record
\* [status, sub_status, time_utc, time_iso, dtr, description, location, evs].
LatestDescOf(ti) ==
    IF TruthyV(ti.dtr)
    THEN IF ti.dtr.kind = "dict"
         THEN Or(ti.dtr.description, ti.dtr.translated)
         ELSE ti.dtr.s
    ELSE ti.description

LatestLocOf(ti) ==
    IF ti.location.kind = "dict"
    THEN Or(Or(ti.location.address, ti.location.city), ti.location.country)
    ELSE ti.location.s

extract_latest_fields(ti) ==
    [last_status         |-> ti.status,
     last_sub_status     |-> ti.sub_status,
     last_event_time_utc |-> Or(ti.time_utc, ti.time_iso),
     last_event_desc     |-> LatestDescOf(ti),
     last_location       |-> LatestLocOf(ti)]

\* The track_info the code works on when the item's track_info is no dict.
EmptyTrackInfo ==
    [status |-> NONE, sub_status |-> NONE, time_utc |-> NONE, time_iso |-> NONE,
     dtr |-> NoDT, description |-> NONE, location |-> NoLoc, evs |-> <<>>]

\* iter_events: the events of every provider, in order, each with its
\* provider's key.  An item's evs is that sequence: records
\* [pk, time_utc, time_iso, dtr, description, location, stage, sub_status].
iter_events(ti) == ti.evs

\* event_hash: sha1 of "|".join([provider_key, time, desc, loc]); sha1 is
\* taken to be collision-free, so the hash is the joined text.
EventDesc(e) ==
    LET d == IF e.dtr.kind = "dict" THEN e.dtr.description ELSE e.dtr.s
    IN  IF d = NONE THEN e.description ELSE d

EventLoc(e) ==
    IF e.location.kind = "dict"
    THEN Or(Or(e.location.address, e.location.city), e.location.country)
    ELSE e.location.s

event_hash(e) ==
    Or(e.pk, "") \o "|" \o Or(Or(e.time_utc, e.time_iso), "") \o "|"
        \o Or(EventDesc(e), "") \o "|" \o Or(EventLoc(e), "")

\* The description column of an inserted event row.
EventDescColumn(e) ==
    IF e.dtr.kind = "dict"
    THEN e.dtr.description
    ELSE IF TruthyV(e.dtr) THEN e.dtr.s ELSE e.description

-----------------------------------------------------------------------------
(* The store *)

HasPackage(pkgs, id) == \E r \in pkgs : r.id = id

PackageById(pkgs, id) == CHOOSE r \in pkgs : r.id = id

\* INSERT INTO events ... : UNIQUE(package_id, event_hash) makes the insert
\* raise IntegrityError, which the caller swallows, when the key exists.
EventKeyExists(evs, pid, eh) ==
    \E r \in evs : r.package_id = pid /\ r.event_hash = eh

EventRow(id, pid, e) ==
    [id           |-> id,
     package_id   |-> pid,
     provider_key |-> e.pk,
     time_utc     |-> e.time_utc,
     time_iso     |-> e.time_iso,
     description  |-> EventDescColumn(e),
     location     |-> e.location,
     stage        |-> e.stage,
     sub_status   |-> e.sub_status,
     raw_json     |-> e,
     event_hash   |-> event_hash(e)]

\* The loop of apply_update_from_trackinfo over iter_events(track_info),
\* from position i: st is [events, nextEventId, inserted].
RECURSIVE InsertEvents(_, _, _, _)
InsertEvents(st, pid, es, i) ==
    IF i > Len(es)
    THEN st
    ELSE IF EventKeyExists(st.events, pid, event_hash(es[i]))
         THEN InsertEvents(st, pid, es, i + 1)
         ELSE InsertEvents(
                [events      |-> st.events \cup {EventRow(st.nextEventId, pid, es[i])},
                 nextEventId |-> st.nextEventId + 1,
                 inserted    |-> st.inserted + 1],
                pid, es, i + 1)

\* The change detection of apply_update_from_trackinfo.  With no content
\* hash the loop reads prev.get(k) as soon as latest.get(k) is truthy, and
\* prev is a sqlite3.Row, which has no get: the call raises AttributeError.
LatestKeys == <<"last_event_time_utc", "last_event_desc", "last_status", "last_sub_status">>

ChangeDetection(prev, latest, sha) ==
    IF Truthy(sha)
    THEN [raised |-> FALSE, changed |-> sha # prev.last_payload_sha]
    ELSE [raised  |-> \E i \in 1..Len(LatestKeys) : Truthy(latest[LatestKeys[i]]),
          changed |-> FALSE]

\* The UPDATE packages ... WHERE id = ? of apply_update_from_trackinfo.
MergeRow(prev, item, latest, sha) ==
    [prev EXCEPT
        !.tracking_status     = IF item.tracking_status # NONE
                                THEN item.tracking_status ELSE prev.tracking_status,
        !.package_status      = IF item.package_status # NONE
                                THEN item.package_status ELSE prev.package_status,
        !.last_status         = Or(latest.last_status, prev.last_status),
        !.last_sub_status     = Or(latest.last_sub_status, prev.last_sub_status),
        !.last_event_time_utc = Or(latest.last_event_time_utc, prev.last_event_time_utc),
        !.last_event_desc     = Or(latest.last_event_desc, prev.last_event_desc),
        !.last_location       = Or(latest.last_location, prev.last_location),
        !.last_payload_sha    = Or(sha, prev.last_payload_sha)]

\* The summary line, as its parts: "[webhook] " label: status @ time - desc
\* (+n events); events_added is 0 when the count is not appended.
Summary(package_row, item, latest, inserted, changed, source) ==
    [label        |-> Or(package_row.label, package_row.number),
     status       |-> Or(Or(Or(latest.last_status, item.package_status),
                            item.tracking_status), "unknown"),
     event_time   |-> latest.last_event_time_utc,
     event_desc   |-> latest.last_event_desc,
     events_added |-> IF inserted > 0 /\ changed THEN inserted ELSE 0,
     webhook      |-> source = "webhook"]

NoSummary ==
    [label |-> NONE, status |-> NONE, event_time |-> NONE, event_desc |-> NONE,
     events_added |-> 0, webhook |-> FALSE]

\* apply_update_from_trackinfo(conn, package_row, response_item,
\* raw_payload_sha, source) on the store <<pkgs, evs, nid>>; package_row is a
\* row of pkgs.  An item is [tracking_status, package_status, is_dict, ti]:
\* ti is its track_info when that is a dict (is_dict).
apply_update_from_trackinfo(pkgs, evs, nid, package_row, item, sha, source) ==
    LET pid    == package_row.id
        ti     == IF item.is_dict THEN item.ti ELSE EmptyTrackInfo
        latest == extract_latest_fields(ti)
        prev   == PackageById(pkgs, pid)
        cd     == ChangeDetection(prev, latest, sha)
        ins    == InsertEvents([events |-> evs, nextEventId |-> nid, inserted |-> 0],
                               pid, iter_events(ti), 1)
    IN  IF cd.raised
        THEN [packages |-> pkgs, events |-> evs, nextEventId |-> nid,
              raised |-> TRUE, changed |-> FALSE, inserted |-> 0,
              summary |-> NoSummary]
        ELSE [packages    |-> (pkgs \ {prev}) \cup {MergeRow(prev, item, latest, sha)},
              events      |-> ins.events,
              nextEventId |-> ins.nextEventId,
              raised      |-> FALSE,
              changed     |-> cd.changed,
              inserted    |-> ins.inserted,
              summary     |-> Summary(package_row, item, latest, ins.inserted,
                                      cd.changed, source)]

\* _normalise_number: strips all whitespace.  The tracking numbers of the
\* model are "N1", "N2" and their spellings with whitespace.
Numbers == {"N1", "N2"}

RawNumbers == Numbers \cup {" N1", "N 2"}

_normalise_number(n) ==
    CASE n = " N1" -> "N1"
      [] n = "N 2" -> "N2"
      [] OTHER     -> n

\* The environment's TRACK17_LANG or "en".
DefaultLang == "en"

FindByKey(pkgs, number, carrier, param) ==
    {r \in pkgs : r.number = number /\ r.carrier = carrier /\ r.param = param}

\* The row INSERT INTO packages writes: the status columns, the latest
\* columns and last_payload_sha are NULL, archived is 0.
NewPackageRow(id, number, carrier, param, label, tag, lang, api_registered) ==
    [id |-> id, number |-> number, carrier |-> carrier, param |-> param,
     label |-> label, tag |-> Or(tag, ""), lang |-> Or(lang, DefaultLang),
     api_registered |-> IF api_registered = "True" THEN 1 ELSE 0,
     tracking_status |-> NONE, package_status |-> NONE,
     last_status |-> NONE, last_sub_status |-> NONE,
     last_event_time_utc |-> NONE, last_event_desc |-> NONE,
     last_location |-> NONE, last_payload_sha |-> NONE,
     archived |-> 0]

\* A variant of upsert_package that writes the tag column on every update,
\* "" when no tag is supplied.
upsert_package_writing_tag(pkgs, nid, number, carrier, param, label, tag, lang, api_registered) ==
    LET number_n == _normalise_number(number)
        param_n  == Or(param, "")
        found    == FindByKey(pkgs, number_n, carrier, param_n)
    IN  IF found # {}
        THEN LET existing == CHOOSE r \in found : TRUE
                 updated  ==
                    [existing EXCEPT
                        !.label = IF label # NONE THEN label ELSE @,
                        !.tag   = Or(tag, ""),
                        !.lang  = IF lang # NONE THEN lang ELSE @,
                        !.api_registered =
                            IF api_registered = NONE THEN @
                            ELSE IF api_registered = "True" THEN 1 ELSE 0]
             IN  [packages  |-> (pkgs \ {existing}) \cup {updated},
                  nextPkgId |-> nid,
                  row       |-> updated]
        ELSE LET row == NewPackageRow(nid, number_n, carrier, param_n,
                                      label, tag, lang, api_registered)
             IN  [packages  |-> pkgs \cup {row},
                  nextPkgId |-> nid + 1,
                  row       |-> row]

\* upsert_package: label, tag and lang are strings or NONE, api_registered is
\* "True", "False" or NONE.  The result is [packages, nextPkgId, row].
upsert_package(pkgs, nid, number, carrier, param, label, tag, lang, api_registered) ==
    LET number_n == _normalise_number(number)
        param_n  == Or(param, "")
        found    == FindByKey(pkgs, number_n, carrier, param_n)
    IN  IF found # {}
        THEN LET existing == CHOOSE r \in found : TRUE
                 updated  ==
                    [existing EXCEPT
                        !.label = IF label # NONE THEN label ELSE @,
                        !.tag   = IF tag # NONE THEN tag ELSE @,
                        !.lang  = IF lang # NONE THEN lang ELSE @,
                        !.api_registered =
                            IF api_registered = NONE THEN @
                            ELSE IF api_registered = "True" THEN 1 ELSE 0]
             IN  [packages  |-> (pkgs \ {existing}) \cup {updated},
                  nextPkgId |-> nid,
                  row       |-> updated]
        ELSE LET row == NewPackageRow(nid, number_n, carrier, param_n,
                                      label, tag, lang, api_registered)
             IN  [packages  |-> pkgs \cup {row},
                  nextPkgId |-> nid + 1,
                  row       |-> row]

-----------------------------------------------------------------------------
(* Webhook payloads, signatures and the payloads table *)

\* A body is a byte string, named by raw.  Sha256Hex (_sha256_hex) is taken
\* to be collision-free: the digest is the bytes' name with a prefix.
Sha256Hex(raw) == "sha256:" \o raw

\* Whether raw_body.decode("utf-8") succeeds.
IsUtf8(raw) == raw # "B4"

\* raw_body.decode("utf-8", errors="replace"): the text of the body, the
\* undecodable bytes replaced by U+FFFD.
DecodeReplace(raw) == IF IsUtf8(raw) THEN raw ELSE raw \o "<U+FFFD>"

\* str.lower() that leaves the letter case as it is.
LowerKeepingCase(v) == v

\* A signature header value is hex text in some letter case: [hex, upper],
\* hex being its lower-case form.  str.lower() of it:
Lower(v) == [v EXCEPT !.upper = FALSE]

NoValue == [hex |-> NONE, upper |-> FALSE]

EmptyValue == [hex |-> "", upper |-> FALSE]

TruthyValue(v) == Truthy(v.hex)

\* compute_webhook_signature: hexdigest (lower case) of
\* sha256(body as UTF-8 text + "/" + secret); the caller has checked IsUtf8.
compute_webhook_signature(raw, secret) ==
    [hex |-> "sha256:" \o raw \o "/" \o secret, upper |-> FALSE]

\* Header names and their lower-case forms.
LowerName(n) ==
    CASE n = "Sign" -> "sign"
      [] n = "X-SIGNATURE" -> "x-signature"
      [] n = "Signature" -> "signature"
      [] n = "Content-Type" -> "content-type"
      [] OTHER -> n

Candidates ==
    <<"signature", "Signature", "SIGNATURE", "sign", "Sign", "x-signature",
      "X-Signature", "x-17track-signature", "X-17Track-Signature">>

LowerCandidates == <<"signature", "sign", "x-signature", "x-17track-signature">>

\* headers is a sequence of <<name, value>> with distinct names (a dict in
\* insertion order).  headers[key], or NoValue.
HeaderGet(headers, key) ==
    IF \E i \in 1..Len(headers) : headers[i][1] = key
    THEN headers[CHOOSE i \in 1..Len(headers) : headers[i][1] = key][2]
    ELSE NoValue

\* lower = {k.lower(): (k, v)}: the last header with that lower-case name.
LowerGet(headers, key) ==
    LET hits == {i \in 1..Len(headers) : LowerName(headers[i][1]) = key}
    IN  IF hits = {} THEN <<NONE, NoValue>>
        ELSE headers[CHOOSE i \in hits : \A j \in hits : j <= i]

\* guess_signature_header: <<name, value>> of the first candidate that has
\* a non-empty value, or <<NONE, NoValue>>.
RECURSIVE GuessLower(_, _)
GuessLower(headers, i) ==
    IF i > Len(LowerCandidates)
    THEN <<NONE, NoValue>>
    ELSE IF TruthyValue(LowerGet(headers, LowerCandidates[i])[2])
         THEN LowerGet(headers, LowerCandidates[i])
         ELSE GuessLower(headers, i + 1)

RECURSIVE GuessExact(_, _)
GuessExact(headers, i) ==
    IF i > Len(Candidates)
    THEN GuessLower(headers, 1)
    ELSE IF TruthyValue(HeaderGet(headers, Candidates[i]))
         THEN <<Candidates[i], HeaderGet(headers, Candidates[i])>>
         ELSE GuessExact(headers, i + 1)

guess_signature_header(headers) == GuessExact(headers, 1)

\* A carrier that is None (a missing key, a NULL column).
NoCarrier == 0 - 1

\* int(c or 0)
CarrierOr0(c) == IF c = NoCarrier THEN 0 ELSE c

\* store_payload: INSERT INTO payloads, ignored (IntegrityError swallowed)
\* when a row has this sha256.  signature is the header value or NoValue
\* (NULL); signature_valid is "1", "0" or NONE (NULL).  payloads.id is not
\* modelled: nothing reads it.
PayloadStored(pls, sha) == \E r \in pls : r.sha256 = sha

\* store_payload with a plain INSERT into a table without UNIQUE(sha256).
store_payload_no_unique(pls, raw, source, signature, signature_valid) ==
    pls \cup {[source |-> source, event_type |-> NONE, number |-> NONE,
               carrier |-> NoCarrier, signature |-> signature,
               signature_valid |-> signature_valid,
               sha256 |-> Sha256Hex(raw), raw_json |-> DecodeReplace(raw)]}

store_payload(pls, raw, source, signature, signature_valid) ==
    IF PayloadStored(pls, Sha256Hex(raw))
    THEN pls
    ELSE pls \cup {[source |-> source, event_type |-> NONE, number |-> NONE,
                    carrier |-> NoCarrier, signature |-> signature,
                    signature_valid |-> signature_valid,
                    sha256 |-> Sha256Hex(raw), raw_json |-> DecodeReplace(raw)]}

-----------------------------------------------------------------------------
(* Inputs of the reconciliation engine *)

Event(pk, tu, tiso, dtr, d, loc, stage) ==
    [pk |-> pk, time_utc |-> tu, time_iso |-> tiso, dtr |-> dtr,
     description |-> d, location |-> loc, stage |-> stage, sub_status |-> NONE]

EvA  == Event("1", "t1", NONE, NoDT, "d1", StrLoc("l1"), "s1")
\* the event of EvA, reported again with another stage
EvA2 == Event("1", "t1", NONE, NoDT, "d1", StrLoc("l1"), "s2")
EvB  == Event("1", NONE, "t2", DictDT("d2", NONE), NONE, DictLoc(NONE, "c2", NONE), NONE)
\* an event with no key, time, description or location
EvC  == Event(NONE, NONE, NONE, NoDT, NONE, NoLoc, NONE)

TrackInfo(st, sub, tu, tiso, dtr, d, loc, evs) ==
    [status |-> st, sub_status |-> sub, time_utc |-> tu, time_iso |-> tiso,
     dtr |-> dtr, description |-> d, location |-> loc, evs |-> evs]

Item(ts, ps, ti) ==
    [tracking_status |-> ts, package_status |-> ps, is_dict |-> TRUE, ti |-> ti]

\* a full item
ItemA == Item("Tracking", "InTransit",
              TrackInfo("InTransit", "s1", "t1", NONE, NoDT, "d1", StrLoc("l1"), <<EvA>>))
\* a later item in the nested shapes, with EvA reported again
ItemB == Item(NONE, "Delivered",
              TrackInfo("Delivered", NONE, NONE, "t2", DictDT("d2", NONE), NONE,
                        DictLoc(NONE, "c2", NONE), <<EvA2, EvB>>))
\* an item whose values are all empty strings
ItemE == Item("", "", TrackInfo("", "", "", NONE, StrDT(""), "", StrLoc(""), <<>>))
\* an item with events and no latest status or event
ItemN == Item(NONE, NONE,
              TrackInfo(NONE, NONE, NONE, NONE, NoDT, NONE, NoLoc, <<EvB, EvC>>))
\* an item whose track_info is not an object
ItemX == [tracking_status |-> "Stopped", package_status |-> NONE,
          is_dict |-> FALSE, ti |-> EmptyTrackInfo]

Items == {ItemA, ItemB, ItemE, ItemN, ItemX}

\* raw_payload_sha: a content hash, or none.
Shas == {NONE, "h1", "h2"}

\* The source a call is made with: sync passes the hash of the item ("h1")
\* or, when hashing it fails, none; ingest_payload passes the body's ("h2").
SourceOf(sha) == IF sha = "h2" THEN "webhook" ELSE "poll"

\* The package keys of the engine's specification.
ApplyKeys == {<<"N1", 7, "">>}

-----------------------------------------------------------------------------
(* Webhook ingestion *)

\* The data object of a webhook payload: the item with its number, carrier,
\* tag and param.
Data(number, carrier, tag, param, item) ==
    [number |-> number, carrier |-> carrier, tag |-> tag, param |-> param,
     item |-> item]

NoData == Data(NONE, NoCarrier, NONE, NONE, ItemX)

\* json.loads(raw_body.decode("utf-8")) of the bodies of the model:
\* [ok, event, has_data, data]; ok is FALSE when decoding or parsing fails,
\* has_data when the payload's data is an object.
\*   B1, B2: deliveries for package (N1, 7, ""); B3: not JSON;
\*   B4: not UTF-8; B5: a payload without a data object.
Bodies == {"B1", "B2", "B3", "B4", "B5"}

\* The text of a sidecar, json.dumps(headers) of the headers of a delivery
\* of body with a signature of the given kind: a JSON object with the
\* header names as keys.
SidecarText(body, kind) == "{headers of " \o body \o ", signature " \o kind \o "}"

InboxBodies == {"B1", "B3"}

InboxKinds == {"good", "bad"}

SidecarTexts == {SidecarText(b, k) : b \in InboxBodies, k \in InboxKinds}

parse_webhook_payload(raw) ==
    CASE raw = "B1" -> [ok |-> TRUE, event |-> "TRACKING_UPDATED", has_data |-> TRUE,
                        data |-> Data("N1", 7, "", NONE, ItemA)]
      [] raw = "B2" -> [ok |-> TRUE, event |-> "TRACKING_UPDATED", has_data |-> TRUE,
                        data |-> Data(" N1", 7, "gift", "", ItemB)]
      [] raw = "B5" -> [ok |-> TRUE, event |-> "PING", has_data |-> FALSE,
                        data |-> NoData]
      [] raw \in SidecarTexts ->
                       [ok |-> TRUE, event |-> NONE, has_data |-> FALSE,
                        data |-> NoData]
      [] OTHER      -> [ok |-> FALSE, event |-> NONE, has_data |-> FALSE,
                        data |-> NoData]

\* The result of ingest_payload on a store st = [packages, events, payloads,
\* nextPkgId, nextEventId]: the store after it, and
\*   raised:  "none", or the exception that ends the call;
\*   verdict: sig_valid, "1", "0" or NONE;
\*   sigtag:  the summary's annotation.
IngestResult(st, raised, changed, verdict, sigtag, summary) ==
    [packages |-> st.packages, events |-> st.events, payloads |-> st.payloads,
     nextPkgId |-> st.nextPkgId, nextEventId |-> st.nextEventId,
     raised |-> raised, changed |-> changed, verdict |-> verdict,
     sigtag |-> sigtag, summary |-> summary]

\* UPDATE payloads SET event_type=?, number=?, carrier=? WHERE sha256=?
UpdatePayloadBasics(pls, sha, event_type, number, carrier) ==
    {IF r.sha256 = sha
     THEN [r EXCEPT !.event_type = event_type, !.number = number, !.carrier = carrier]
     ELSE r : r \in pls}

\* The part of ingest_payload after the payload is stored and parsed, for
\* a payload with a data object.
IngestData(st, data, payload_sha, source, verdict, sigtag) ==
    LET number_s  == _normalise_number(Or(data.number, ""))
        carrier_i == CarrierOr0(data.carrier)
        tag       == Or(data.tag, "")
        param     == Or(data.param, "")
        found     == FindByKey(st.packages, number_s, carrier_i, param)
        up        == upsert_package(st.packages, st.nextPkgId, number_s, carrier_i,
                                    param, NONE, tag, DefaultLang, "True")
        pkgs      == IF found # {} THEN st.packages ELSE up.packages
        pkg       == IF found # {} THEN CHOOSE r \in found : TRUE ELSE up.row
        r         == apply_update_from_trackinfo(pkgs, st.events, st.nextEventId,
                                                 pkg, data.item, payload_sha, source)
    IN  IngestResult([packages |-> r.packages, events |-> r.events,
                      payloads |-> st.payloads,
                      nextPkgId |-> IF found # {} THEN st.nextPkgId ELSE up.nextPkgId,
                      nextEventId |-> r.nextEventId],
                     IF r.raised THEN "AttributeError" ELSE "none",
                     r.changed, verdict, sigtag, r.summary)

\* ingest_payload that rejects a payload whose signature does not match,
\* before storing it.
ingest_payload_rejecting(st, raw, headers, source, secret) ==
    LET sig_value == guess_signature_header(headers)[2]
        checked   == Truthy(secret) /\ TruthyValue(sig_value)
        sha       == Sha256Hex(raw)
        payload   == parse_webhook_payload(raw)
        good      == Lower(compute_webhook_signature(raw, secret)) = Lower(sig_value)
        sig_valid == IF ~checked THEN NONE ELSE IF good THEN "1" ELSE "0"
        sigtag    == IF checked THEN "valid signature"
                     ELSE IF Truthy(secret) THEN "no signature header" ELSE NONE
        stored    == [st EXCEPT !.payloads =
                         store_payload(st.payloads, raw, source, sig_value, sig_valid)]
        number    == IF payload.has_data THEN payload.data.number ELSE NONE
        carrier   == IF payload.has_data THEN payload.data.carrier ELSE NoCarrier
        basics    == [stored EXCEPT !.payloads =
                         UpdatePayloadBasics(stored.payloads, sha, payload.event,
                                             number, carrier)]
    IN  IF checked /\ ~IsUtf8(raw)
        THEN IngestResult(st, "UnicodeDecodeError", FALSE, NONE, NONE, NoSummary)
        ELSE IF checked /\ ~good
        THEN IngestResult(st, "Track17Error", FALSE, "0", "INVALID signature", NoSummary)
        ELSE IF ~payload.ok
        THEN IngestResult(stored, "Track17Error", FALSE, sig_valid, sigtag, NoSummary)
        ELSE IF ~payload.has_data
        THEN IngestResult(basics, "none", FALSE, sig_valid, NONE, NoSummary)
        ELSE IngestData(basics, payload.data, sha, source, sig_valid, sigtag)

ingest_payload(st, raw, headers, source, secret) ==
    LET sig_pair  == guess_signature_header(headers)
        sig_value == sig_pair[2]
        checked   == Truthy(secret) /\ TruthyValue(sig_value)
        sig_valid == IF ~checked THEN NONE
                     ELSE IF Lower(compute_webhook_signature(raw, secret)) = Lower(sig_value)
                          THEN "1" ELSE "0"
        sigtag    == IF checked
                     THEN IF sig_valid = "1" THEN "valid signature" ELSE "INVALID signature"
                     ELSE IF Truthy(secret) THEN "no signature header" ELSE NONE
        sha       == Sha256Hex(raw)
        stored    == [st EXCEPT !.payloads =
                         store_payload(st.payloads, raw, source, sig_value, sig_valid)]
        payload   == parse_webhook_payload(raw)
        number    == IF payload.has_data THEN payload.data.number ELSE NONE
        carrier   == IF payload.has_data THEN payload.data.carrier ELSE NoCarrier
        basics    == [stored EXCEPT !.payloads =
                         UpdatePayloadBasics(stored.payloads, sha, payload.event,
                                             number, carrier)]
    IN  IF checked /\ ~IsUtf8(raw)
        THEN IngestResult(st, "UnicodeDecodeError", FALSE, NONE, NONE, NoSummary)
        ELSE IF ~payload.ok
        THEN IngestResult(stored, "Track17Error", FALSE, sig_valid, sigtag, NoSummary)
        ELSE IF ~payload.has_data
        THEN IngestResult(basics, "none", FALSE, sig_valid, NONE, NoSummary)
        ELSE IngestData(basics, payload.data, sha, source, sig_valid, sigtag)

-----------------------------------------------------------------------------
(* The specification of the reconciliation engine: packages are created by *)
(* upsert_package and updated by apply_update_from_trackinfo.              *)

NoOp == [op |-> "none"]

\* No command is running; no request has been sent to the provider.
NoRun == [pc |-> "idle"]

NoHttp == [requests |-> 0]

InitStore ==
    /\ packages = {}
    /\ events = {}
    /\ payloads = {}
    /\ nextPkgId = 1
    /\ nextEventId = 1
    /\ inbox = {}
    /\ threads = <<>>
    /\ processed = {}
    /\ run = NoRun
    /\ http = NoHttp
    /\ now = 0
    /\ last = NoOp

Init == InitStore

\* upsert_package(number, carrier, param, api_registered=True), as sync and
\* ingest_payload call it for a package they do not know.
ApUpsert ==
    \E k \in ApplyKeys :
        LET r == upsert_package(packages, nextPkgId, k[1], k[2], k[3],
                                NONE, "", DefaultLang, "True")
        IN  /\ FindByKey(packages, k[1], k[2], k[3]) = {}
            /\ packages' = r.packages
            /\ nextPkgId' = r.nextPkgId
            /\ last' = [op |-> "upsert", pid |-> r.row.id]
            /\ UNCHANGED <<events, payloads, nextEventId, inbox, threads, processed, run, http, now>>

\* apply_update_from_trackinfo on a row of packages.  The history records
\* the row before the call, and whether the call repeats the
\* previous one (same package, item and hash).
ApApply ==
    \E row \in packages, item \in Items, sha \in Shas :
        LET source == SourceOf(sha)
            r == apply_update_from_trackinfo(packages, events, nextEventId,
                                             row, item, sha, source)
        IN  /\ packages' = r.packages
            /\ events' = r.events
            /\ nextEventId' = r.nextEventId
            /\ last' = [op |-> "apply", pid |-> row.id, item |-> item, sha |-> sha,
                        source |-> source, prev |-> row,
                        raised |-> r.raised, changed |-> r.changed,
                        inserted |-> r.inserted, summary |-> r.summary,
                        repeat |-> /\ last.op = "apply"
                                   /\ last.pid = row.id
                                   /\ last.item = item
                                   /\ last.sha = sha]
            /\ UNCHANGED <<payloads, nextPkgId, inbox, threads, processed, run, http, now>>

Next == ApUpsert \/ ApApply

Spec == Init /\ [][Next]_vars

-----------------------------------------------------------------------------
(* The specification of webhook ingestion: ingest_payload, as               *)
(* ingest-webhook and process-inbox call it, on bodies with the headers     *)
(* they were received with.                                                 *)

\* The key the sender signs with, and the secrets --secret or
\* TRACK17_WEBHOOK_SECRET may configure (NONE: not configured).
SenderKey == "s3cr3t"

Secrets == {NONE, SenderKey}

\* The request headers of a delivery of raw, by kind:
\*   none:  no signature header;
\*   good:  the sender's signature, under a name of the candidate list;
\*   upper: the sender's signature in upper-case hex, under a name that
\*          matches only case-insensitively;
\*   bad:   a signature of other bytes;
\*   empty: a signature header with an empty value.
HeaderKinds == {"none", "good", "upper", "bad", "empty"}

HeadersOf(raw, kind) ==
    CASE kind = "good"  -> << <<"Sign", compute_webhook_signature(raw, SenderKey)>> >>
      [] kind = "upper" -> << <<"X-SIGNATURE",
                                [compute_webhook_signature(raw, SenderKey)
                                    EXCEPT !.upper = TRUE]>> >>
      [] kind = "bad"   -> << <<"Content-Type", [hex |-> "application/json", upper |-> FALSE]>>,
                              <<"Signature", compute_webhook_signature("tampered", SenderKey)>> >>
      [] kind = "empty" -> << <<"Sign", EmptyValue>> >>
      [] OTHER          -> <<>>

\* The deliveries of the model: a body and the kind of its headers.
Deliveries ==
    {<<"B1", "none">>, <<"B1", "good">>, <<"B1", "upper">>, <<"B1", "bad">>,
     <<"B2", "good">>, <<"B2", "bad">>,
     <<"B3", "good">>,
     <<"B4", "none">>, <<"B4", "good">>,
     <<"B5", "empty">>}

Store == [packages |-> packages, events |-> events, payloads |-> payloads,
          nextPkgId |-> nextPkgId, nextEventId |-> nextEventId]

PayloadRowOf(pls, raw) ==
    IF PayloadStored(pls, Sha256Hex(raw))
    THEN {r \in pls : r.sha256 = Sha256Hex(raw)}
    ELSE {}

\* ingest_payload(raw_body, headers, source="webhook", secret).  The history
\* records the inputs, the outcome and the payload's rows before the call.
Ingest ==
    \E d \in Deliveries, secret \in Secrets :
      \E raw \in {d[1]}, kind \in {d[2]} :
        \E r \in {ingest_payload(Store, raw, HeadersOf(raw, kind), "webhook", secret)} :
            /\ packages' = r.packages
            /\ events' = r.events
            /\ payloads' = r.payloads
            /\ nextPkgId' = r.nextPkgId
            /\ nextEventId' = r.nextEventId
            /\ last' = [op |-> "ingest", raw |-> raw, kind |-> kind, secret |-> secret,
                        raised |-> r.raised, changed |-> r.changed,
                        verdict |-> r.verdict, sigtag |-> r.sigtag,
                        before |-> PayloadRowOf(payloads, raw)]
            /\ UNCHANGED <<inbox, threads, processed, run, http, now>>

NextIngest == Ingest

SpecIngest == InitStore /\ [][NextIngest]_vars

-----------------------------------------------------------------------------
(* The add and remove commands: cmd_add registers a number with the         *)
(* provider and moves the row to the carrier the provider resolved;        *)
(* cmd_remove deletes a row found by id or by number.                      *)

\* The highest packages.id the model creates.
MaxPackages == 3

\* The carriers of the add commands of the model: 0 (auto-detect) and 7,
\* the carrier the provider resolves the numbers of the model to.
AddCarriers == {0, 7}

AddNumbers == {"N1", " N1"}

AddLabels == {NONE, "desk"}

\* The provider's answers to api_register: the item accepted with the
\* resolved carrier, accepted without a carrier, or rejected.
Responses == {"accepted", "accepted_no_carrier", "rejected"}

AcceptedCarrier(resp) == IF resp = "accepted" THEN 7 ELSE NoCarrier

\* UPDATE packages SET ... WHERE id=?
UpdateById(pkgs, id, carrier, api_registered, archived) ==
    {IF r.id = id
     THEN [r EXCEPT !.carrier = IF carrier = NoCarrier THEN @ ELSE carrier,
                    !.api_registered = IF api_registered = NONE THEN @ ELSE 1,
                    !.archived = IF archived = NONE THEN @ ELSE 1]
     ELSE r : r \in pkgs}

\* A variant of cmd_add that moves the row to the resolved carrier without
\* looking for a row that has it.
cmd_add_moving(pkgs, nid, arg_number, arg_carrier, arg_label, resp) ==
    LET number  == _normalise_number(arg_number)
        carrier == CarrierOr0(arg_carrier)
        label   == arg_label
        tag     == IF label # NONE THEN label ELSE ""
        up      == upsert_package(pkgs, nid, number, carrier, "", label, tag,
                                  DefaultLang, "False")
        acc     == AcceptedCarrier(resp)
        new_carrier == IF acc # NoCarrier /\ acc # 0 THEN acc ELSE carrier
    IN  IF resp = "rejected"
        THEN [packages |-> up.packages, nextPkgId |-> up.nextPkgId,
              raised |-> TRUE, new_carrier |-> NoCarrier]
        ELSE [packages |-> UpdateById(up.packages, up.row.id, new_carrier, "1", NONE),
              nextPkgId |-> up.nextPkgId,
              raised |-> FALSE, new_carrier |-> new_carrier]

\* A variant of cmd_add that deletes the row a carrier correction
\* supersedes.
cmd_add_deleting(pkgs, nid, arg_number, arg_carrier, arg_label, resp) ==
    LET number  == _normalise_number(arg_number)
        carrier == CarrierOr0(arg_carrier)
        label   == arg_label
        tag     == IF label # NONE THEN label ELSE ""
        up      == upsert_package(pkgs, nid, number, carrier, "", label, tag,
                                  DefaultLang, "False")
        acc     == AcceptedCarrier(resp)
        new_carrier == IF acc # NoCarrier /\ acc # 0 THEN acc ELSE carrier
        existing == FindByKey(up.packages, number, new_carrier, "")
        ex      == CHOOSE r \in existing : TRUE
        merged  == upsert_package(up.packages, up.nextPkgId, number, new_carrier, "",
                                  Or(label, ex.label), Or(tag, ex.tag),
                                  Or(DefaultLang, ex.lang), "True")
    IN  IF resp = "rejected"
        THEN [packages |-> up.packages, nextPkgId |-> up.nextPkgId,
              raised |-> TRUE, new_carrier |-> NoCarrier]
        ELSE IF up.row.carrier # new_carrier
        THEN IF existing # {}
             THEN [packages |-> {r \in merged.packages : r.id # up.row.id},
                   nextPkgId |-> merged.nextPkgId,
                   raised |-> FALSE, new_carrier |-> new_carrier]
             ELSE [packages |-> UpdateById(up.packages, up.row.id, new_carrier, "1", NONE),
                   nextPkgId |-> up.nextPkgId,
                   raised |-> FALSE, new_carrier |-> new_carrier]
        ELSE [packages |-> UpdateById(up.packages, up.row.id, NoCarrier, "1", NONE),
              nextPkgId |-> up.nextPkgId,
              raised |-> FALSE, new_carrier |-> new_carrier]

\* cmd_add(number, carrier, param="", label, tag=None, lang=None) with the
\* provider's answer resp.  The result is [packages, nextPkgId, raised,
\* new_carrier].
cmd_add(pkgs, nid, arg_number, arg_carrier, arg_label, resp) ==
    LET number  == _normalise_number(arg_number)
        carrier == CarrierOr0(arg_carrier)
        param   == ""
        label   == arg_label
        tag     == IF label # NONE THEN label ELSE ""
        lang    == DefaultLang
        up      == upsert_package(pkgs, nid, number, carrier, param, label, tag,
                                  lang, "False")
        row     == up.row
        acc     == AcceptedCarrier(resp)
        new_carrier == IF acc # NoCarrier /\ acc # 0 THEN acc ELSE carrier
        existing == FindByKey(up.packages, number, new_carrier, param)
        ex      == CHOOSE r \in existing : TRUE
        merged  == upsert_package(up.packages, up.nextPkgId, number, new_carrier, param,
                                  Or(label, ex.label), Or(tag, ex.tag), Or(lang, ex.lang),
                                  "True")
    IN  IF resp = "rejected"
        THEN [packages |-> up.packages, nextPkgId |-> up.nextPkgId,
              raised |-> TRUE, new_carrier |-> NoCarrier]
        ELSE IF row.carrier # new_carrier
        THEN IF existing # {}
             THEN [packages |-> UpdateById(merged.packages, row.id, NoCarrier, NONE, "1"),
                   nextPkgId |-> merged.nextPkgId,
                   raised |-> FALSE, new_carrier |-> new_carrier]
             ELSE [packages |-> UpdateById(up.packages, row.id, new_carrier, "1", NONE),
                   nextPkgId |-> up.nextPkgId,
                   raised |-> FALSE, new_carrier |-> new_carrier]
        ELSE [packages |-> UpdateById(up.packages, row.id, NoCarrier, "1", NONE),
              nextPkgId |-> up.nextPkgId,
              raised |-> FALSE, new_carrier |-> new_carrier]

\* find_package: by id when the key is a digit string and a row has that
\* id, else the row of highest id whose number is the normalised key.  A key
\* is [id], the digits of an id that is no tracking number of the model;
\* [number], a text that is not all digits; or [digits], a tracking number
\* that is all digits, with its value and whether the value is wider than
\* an SQLite INTEGER (64 bits).
IdKey(id) == [kind |-> "id", id |-> id, number |-> NONE, wide |-> FALSE]

NumberKey(n) == [kind |-> "number", id |-> 0, number |-> n, wide |-> FALSE]

DigitsKey(n, value, wide) == [kind |-> "digits", id |-> value, number |-> n, wide |-> wide]

find_package(pkgs, key) ==
    LET byId     == {r \in pkgs : key.kind \in {"id", "digits"} /\ r.id = key.id}
        byNumber == {r \in pkgs : /\ key.kind \in {"number", "digits"}
                                  /\ r.number = _normalise_number(key.number)}
    IN  IF byId # {} THEN byId
        ELSE {r \in byNumber : \A q \in byNumber : q.id <= r.id}

\* The exception that leaves find_package: binding int(k) to the query
\* raises OverflowError when the value does not fit an SQLite INTEGER.
FindRaises(key) ==
    IF key.kind = "digits" /\ key.wide THEN "OverflowError" ELSE "none"

\* cmd_add, with the store's rows before and after in the history.
CmdAdd ==
    /\ run.pc = "idle"
    /\ nextPkgId <= MaxPackages
    /\ \E number \in AddNumbers, carrier \in AddCarriers, label \in AddLabels,
          resp \in Responses :
          \E r \in {cmd_add(packages, nextPkgId, number, carrier, label, resp)} :
             /\ packages' = r.packages
             /\ nextPkgId' = r.nextPkgId
             /\ last' = [op |-> "add", number |-> _normalise_number(number),
                         carrier |-> carrier, resp |-> resp,
                         raised |-> r.raised, new_carrier |-> r.new_carrier,
                         before |-> packages]
    /\ UNCHANGED <<events, payloads, nextEventId, inbox, threads, processed, run, http, now>>

\* The keys of the commands that take one: an id, or a number.
CommandKeys ==
    {IdKey(i) : i \in 1..MaxPackages} \cup {NumberKey(n) : n \in AddNumbers}

\* The provider's answer to a request about one item.
ItemResponses == {"accepted", "rejected"}

\* What a command that looks a package up leaves in the history: the row
\* found (id 0 when none), whether the provider rejected the item, and the
\* exit code: 2 when no row is found, 1 when Track17Error reaches main.
CommandHistory(op, found, resp) ==
    [op       |-> op,
     pid      |-> IF found = {} THEN 0 ELSE (CHOOSE r \in found : TRUE).id,
     rejected |-> found # {} /\ resp = "rejected",
     rc       |-> IF found = {} THEN 2 ELSE IF resp = "rejected" THEN 1 ELSE 0]

\* A variant of cmd_remove that leaves the events of the removed row.
CmdRemoveKeepingEvents ==
    /\ run.pc = "idle"
    /\ \E key \in CommandKeys, delete_remote \in BOOLEAN, resp \in ItemResponses :
          \E found \in {find_package(packages, key)} :
             /\ packages' = IF found = {} \/ (delete_remote /\ resp = "rejected")
                            THEN packages ELSE packages \ found
             /\ last' = CommandHistory("remove", found,
                                       IF delete_remote THEN resp ELSE "accepted")
    /\ UNCHANGED <<events, payloads, nextPkgId, nextEventId, inbox, threads, processed,
                   run, http, now>>

\* cmd_remove(key, delete_remote): with no row found the command writes
\* nothing and returns 2; with --delete-remote and the item rejected it
\* raises before it writes; else DELETE FROM packages WHERE id=?, the row's
\* events going with it (ON DELETE CASCADE).
CmdRemove ==
    /\ run.pc = "idle"
    /\ \E key \in CommandKeys, delete_remote \in BOOLEAN, resp \in ItemResponses :
          \E found \in {find_package(packages, key)} :
             /\ IF found = {} \/ (delete_remote /\ resp = "rejected")
                THEN UNCHANGED <<packages, events>>
                ELSE /\ packages' = packages \ found
                     /\ events' = {e \in events : \A r \in found : e.package_id # r.id}
             /\ last' = CommandHistory("remove", found,
                                       IF delete_remote THEN resp ELSE "accepted")
    /\ UNCHANGED <<payloads, nextPkgId, nextEventId, inbox, threads, processed, run, http, now>>

NextAdd == CmdAdd \/ CmdRemove

SpecAdd == InitStore /\ [][NextAdd]_vars

-----------------------------------------------------------------------------
(* find_package on its own: looked up with ids, numbers and all-digit      *)
(* tracking numbers, on stores of packages with such numbers.              *)

\* A tracking number of 22 digits, as postal services issue them.
LongNumber == "9400111899223197428490"

FindNumbers == {"N1", "2", LongNumber}

FindCarriers == {0, 7}

FindKeys ==
    {IdKey(i) : i \in {1, 3}}
    \cup {NumberKey(n) : n \in {"N1", " N1", "zzz"}}
    \cup {DigitsKey("2", 2, FALSE), DigitsKey(LongNumber, 0, TRUE)}

\* A package is tracked: upsert_package, as add calls it.
FindTrack ==
    /\ nextPkgId <= MaxPackages
    /\ \E number \in FindNumbers, carrier \in FindCarriers :
          \E r \in {upsert_package(packages, nextPkgId, number, carrier, "",
                                   NONE, "", DefaultLang, "False")} :
             /\ FindByKey(packages, number, carrier, "") = {}
             /\ packages' = r.packages
             /\ nextPkgId' = r.nextPkgId
             /\ last' = [op |-> "track", pid |-> r.row.id]
    /\ UNCHANGED <<events, payloads, nextEventId, inbox, threads, processed,
                   run, http, now>>

\* find_package(key), as status, stop, retrack and remove call it.
Find ==
    /\ \E key \in FindKeys :
          last' = [op |-> "find", key |-> key,
                   raised |-> FindRaises(key),
                   found |-> IF FindRaises(key) = "none"
                             THEN find_package(packages, key) ELSE {}]
    /\ UNCHANGED <<packages, events, payloads, nextPkgId, nextEventId, inbox,
                   threads, processed, run, http, now>>

NextFind == FindTrack \/ Find

SpecFind == InitStore /\ [][NextFind]_vars

-----------------------------------------------------------------------------
(* upsert_package on its own: called with every combination of supplied    *)
(* and omitted fields, on stores whose rows the other operations have      *)
(* filled and archived.                                                    *)

\* The number (not normalised), the carriers and the param of the calls.
UpsertNumber == " N1"

UpsertCarriers == {0, 7}

UpsertParam == NONE

\* The fields a call supplies: [label, tag, lang, api_registered], NONE for
\* a field that is omitted.
Supplied(label, tag, lang, api_registered) ==
    [label |-> label, tag |-> tag, lang |-> lang, api_registered |-> api_registered]

UpsertCalls ==
    {Supplied(NONE, NONE, NONE, NONE),
     Supplied("desk", NONE, NONE, NONE),
     Supplied(NONE, "t", NONE, NONE),
     Supplied(NONE, NONE, "fr", NONE),
     Supplied(NONE, NONE, NONE, "True"),
     Supplied(NONE, NONE, NONE, "False"),
     Supplied("desk", "", NONE, "False"),
     Supplied("desk", "t", "fr", "True")}

\* upsert_package(number, carrier, param, label, tag, lang, api_registered),
\* with the arguments, the rows before and the returned row in the history.
Upsert ==
    /\ \E carrier \in UpsertCarriers, c \in UpsertCalls :
          \E r \in {upsert_package(packages, nextPkgId, UpsertNumber, carrier,
                                   UpsertParam, c.label, c.tag, c.lang,
                                   c.api_registered)} :
             /\ packages' = r.packages
             /\ nextPkgId' = r.nextPkgId
             /\ last' = [op |-> "upsert", number |-> UpsertNumber, carrier |-> carrier,
                         param |-> UpsertParam, label |-> c.label, tag |-> c.tag,
                         lang |-> c.lang, api_registered |-> c.api_registered,
                         row |-> r.row, before |-> packages]
    /\ UNCHANGED <<events, payloads, nextEventId, inbox, threads, processed, run, http, now>>

\* apply_update_from_trackinfo of a full item on a row, as sync calls it.
UpsertApply ==
    /\ \E row \in packages :
          \E r \in {apply_update_from_trackinfo(packages, events, nextEventId,
                                                row, ItemA, "h1", "poll")} :
             /\ row.last_payload_sha = NONE
             /\ ~r.raised
             /\ packages' = r.packages
             /\ events' = r.events
             /\ nextEventId' = r.nextEventId
             /\ last' = [op |-> "apply", pid |-> row.id]
    /\ UNCHANGED <<payloads, nextPkgId, inbox, threads, processed, run, http, now>>

\* UPDATE packages SET archived=1 WHERE id=?, as cmd_add does to a row that
\* a carrier correction supersedes.
UpsertArchive ==
    /\ \E row \in packages :
          /\ row.archived = 0
          /\ packages' = UpdateById(packages, row.id, NoCarrier, NONE, "1")
          /\ last' = [op |-> "archive", pid |-> row.id]
    /\ UNCHANGED <<events, payloads, nextPkgId, nextEventId, inbox, threads,
                   processed, run, http, now>>

NextUpsert == Upsert \/ UpsertApply \/ UpsertArchive

SpecUpsert == InitStore /\ [][NextUpsert]_vars

-----------------------------------------------------------------------------
(* The webhook receiver: _WebhookHandler.do_POST and WebhookServer.spool,   *)
(* one thread per request (ThreadingHTTPServer), on the inbox directory.    *)

\* max_files of the receiver and the number of requests of the model.
MaxFiles == 2

MaxSpools == 3

\* The request threads and the seconds of the receiver's clock.
Threads == {1, 2}

Seconds == {1, 2}

SpoolBodies == {"B1", "B2", "B3"}

\* dict(self.headers) of a request.
SpoolHeaders == {"h1", "h2"}

\* _sha256_hex(raw_body)[:16], as the number its 16 hex digits write; file
\* names of one second sort by it.
ShortSha(raw) ==
    CASE raw = "B1" -> 3
      [] raw = "B2" -> 7
      [] raw = "B3" -> 5
      [] OTHER      -> 9

\* A file of the inbox is [stem, suffix, content]: stem is <<ts, sha>>, the
\* name is "{ts}_{sha}.json" or "{ts}_{sha}.headers.json".
JsonSuffix == "json"

HeadersSuffix == "headers.json"

File(stem, suffix, content) == [stem |-> stem, suffix |-> suffix, content |-> content]

\* fpath.exists()
FileExists(files, stem, suffix) ==
    \E f \in files : f.stem = stem /\ f.suffix = suffix

\* The order of sorted() on the paths of inbox_dir.glob("*.json"), which
\* matches the payload files and the sidecars: by timestamp, by hash, and
\* "X.headers.json" before "X.json".
Precedes(f, g) ==
    \/ f.stem[1] < g.stem[1]
    \/ f.stem[1] = g.stem[1] /\ f.stem[2] < g.stem[2]
    \/ f.stem = g.stem /\ f.suffix = HeadersSuffix /\ g.suffix = JsonSuffix

\* existing[:k]
Oldest(existing, k) ==
    {f \in existing : Cardinality({g \in existing : Precedes(g, f)}) < k}

\* The eviction loop of spool: with len(existing) >= max_files, each of the
\* first len(existing) - max_files + 1 files is unlinked, and with it the
\* file old.with_suffix(".headers.json"), which for a payload file is its
\* sidecar and for a sidecar is a name that does not exist.
Evict(files, max_files) ==
    LET existing == files
        n        == Cardinality(existing)
        olds     == IF n >= max_files THEN Oldest(existing, n - max_files + 1) ELSE {}
        sides    == {f \in files : /\ f.suffix = HeadersSuffix
                                   /\ \E o \in olds : o.suffix = JsonSuffix /\ o.stem = f.stem}
    IN  (files \ olds) \ sides

\* write_bytes / write_text: creates the file or replaces its content.
WriteFile(files, stem, suffix, content) ==
    {f \in files : ~(f.stem = stem /\ f.suffix = suffix)}
        \cup {File(stem, suffix, content)}

\* A request thread: its position in do_POST and spool, the body and the
\* headers it read, the status line it has written to the sender (or NONE),
\* and the second spool derived the name from.
IdleThread ==
    [pc |-> "idle", body |-> NONE, headers |-> NONE, response |-> NONE, ts |-> 0]

StemOf(th) == <<th.ts, ShortSha(th.body)>>

Touch(op, t, stem, existed) ==
    [last EXCEPT !.op = op, !.t = t, !.stem = stem, !.existed = existed]

\* do_POST and spool hold no database connection, read and write no file
\* outside the inbox and send nothing to the provider.
UnchangedStore ==
    UNCHANGED <<packages, events, payloads, nextPkgId, nextEventId,
                processed, run, http>>

InitSpool ==
    /\ packages = {}
    /\ events = {}
    /\ payloads = {}
    /\ nextPkgId = 1
    /\ nextEventId = 1
    /\ inbox = {}
    /\ threads = [t \in Threads |-> IdleThread]
    /\ processed = {}
    /\ run = NoRun
    /\ http = NoHttp
    /\ now = 1
    /\ last = [op |-> "none", t |-> 0, stem |-> <<0, 0>>, existed |-> FALSE,
               started |-> 0, done |-> 0, bodies |-> {}, clean |-> TRUE,
               response |-> NONE, intact |-> TRUE]

\* The clock reaches the next second.
Tick ==
    /\ now + 1 \in Seconds
    /\ now' = now + 1
    /\ last' = Touch("tick", 0, <<0, 0>>, FALSE)
    /\ UNCHANGED <<inbox, threads>>
    /\ UnchangedStore

\* do_POST reads the body of a request.  The history counts the requests
\* and records whether they all came one after another, with distinct
\* bodies (clean).
Receive(t) ==
    /\ threads[t].pc = "idle"
    /\ last.started < MaxSpools
    /\ \E body \in SpoolBodies, headers \in SpoolHeaders :
          /\ threads' = [threads EXCEPT ![t] = [pc |-> "respond", body |-> body,
                                                headers |-> headers,
                                                response |-> NONE, ts |-> 0]]
          /\ last' = [Touch("receive", t, <<now, ShortSha(body)>>, FALSE)
                        EXCEPT !.started = @ + 1,
                               !.bodies = @ \cup {body},
                               !.clean = /\ @
                                         /\ body \notin last.bodies
                                         /\ \A u \in Threads : threads[u].pc = "idle"]
    /\ UNCHANGED <<inbox, now>>
    /\ UnchangedStore

\* do_POST writes the 200 response (wfile is unbuffered: the sender has it)
\* and calls spool, which derives the file name from the clock and the body.
Respond(t) ==
    /\ threads[t].pc = "respond"
    /\ threads' = [threads EXCEPT ![t].pc = "check", ![t].response = "200",
                                  ![t].ts = now]
    /\ last' = Touch("respond", t, <<now, ShortSha(threads[t].body)>>, FALSE)
    /\ UNCHANGED <<inbox, now>>
    /\ UnchangedStore

\* if fpath.exists(): return
Check(t) ==
    /\ threads[t].pc = "check"
    /\ IF FileExists(inbox, StemOf(threads[t]), JsonSuffix)
       THEN /\ threads' = [threads EXCEPT ![t] = IdleThread]
            /\ last' = [Touch("return", t, StemOf(threads[t]), TRUE)
                          EXCEPT !.done = @ + 1,
                                 !.response = threads[t].response]
       ELSE /\ threads' = [threads EXCEPT ![t].pc = "evict"]
            /\ last' = Touch("check", t, StemOf(threads[t]), FALSE)
    /\ UNCHANGED <<inbox, now>>
    /\ UnchangedStore

\* The backpressure block.
EvictOld(t) ==
    /\ threads[t].pc = "evict"
    /\ inbox' = Evict(inbox, MaxFiles)
    /\ threads' = [threads EXCEPT ![t].pc = "write"]
    /\ last' = Touch("evict", t, StemOf(threads[t]), FALSE)
    /\ UNCHANGED now
    /\ UnchangedStore

\* A spool that also records the body in the payloads table.
WritePayloadStoring(t) ==
    /\ threads[t].pc = "write"
    /\ inbox' = WriteFile(inbox, StemOf(threads[t]), JsonSuffix, threads[t].body)
    /\ payloads' = store_payload(payloads, threads[t].body, "webhook", NoValue, NONE)
    /\ threads' = [threads EXCEPT ![t].pc = "side"]
    /\ last' = Touch("write", t, StemOf(threads[t]),
                     FileExists(inbox, StemOf(threads[t]), JsonSuffix))
    /\ UNCHANGED <<packages, events, nextPkgId, nextEventId, processed, run, http, now>>

\* fpath.write_bytes(raw_body).  The history records whether the file
\* existed.
WritePayload(t) ==
    /\ threads[t].pc = "write"
    /\ inbox' = WriteFile(inbox, StemOf(threads[t]), JsonSuffix, threads[t].body)
    /\ threads' = [threads EXCEPT ![t].pc = "side"]
    /\ last' = Touch("write", t, StemOf(threads[t]),
                     FileExists(inbox, StemOf(threads[t]), JsonSuffix))
    /\ UNCHANGED now
    /\ UnchangedStore

\* (inbox_dir / f"{fpath.stem}.headers.json").write_text(json.dumps(headers))
WriteSidecar(t) ==
    /\ threads[t].pc = "side"
    /\ inbox' = WriteFile(inbox, StemOf(threads[t]), HeadersSuffix, threads[t].headers)
    /\ threads' = [threads EXCEPT ![t] = IdleThread]
    /\ last' = [Touch("spooled", t, StemOf(threads[t]),
                      FileExists(inbox, StemOf(threads[t]), HeadersSuffix))
                  EXCEPT !.done = @ + 1,
                         !.response = threads[t].response]
    /\ UNCHANGED now
    /\ UnchangedStore

\* A failure of spool that answers the sender again, with a 500.
SpoolFailsAnswering500(t) ==
    /\ threads[t].pc \in {"write", "side"}
    /\ threads' = [threads EXCEPT ![t] = IdleThread]
    /\ last' = [Touch("failed", t, StemOf(threads[t]), FALSE)
                  EXCEPT !.done = @ + 1,
                         !.response = "500",
                         !.intact = FALSE]
    /\ UNCHANGED <<inbox, now>>
    /\ UnchangedStore

\* fpath.write_bytes or write_text raises OSError (disk full, no
\* permission): spool and do_POST end there, nothing catches it before the
\* server's handle_error, and the file of the failed write is not there.
\* The history records that a write has failed (intact).
SpoolFails(t) ==
    /\ threads[t].pc \in {"write", "side"}
    /\ threads' = [threads EXCEPT ![t] = IdleThread]
    /\ last' = [Touch("failed", t, StemOf(threads[t]), FALSE)
                  EXCEPT !.done = @ + 1,
                         !.response = threads[t].response,
                         !.intact = FALSE]
    /\ UNCHANGED <<inbox, now>>
    /\ UnchangedStore

NextSpool ==
    \/ Tick
    \/ \E t \in Threads : Receive(t)
    \/ \E t \in Threads : Respond(t)
    \/ \E t \in Threads : Check(t)
    \/ \E t \in Threads : EvictOld(t)
    \/ \E t \in Threads : WritePayload(t)
    \/ \E t \in Threads : WriteSidecar(t)
    \/ \E t \in Threads : SpoolFails(t)

SpecSpool == InitSpool /\ [][NextSpool]_vars

-----------------------------------------------------------------------------
(* list_packages on its own: the rows carry updated_at, the second of      *)
(* _utc_now_iso() at their last write; several writes fall in one second.  *)

ListNumbers == {"N1", "N2", "N3"}

\* updated_at = ? with _utc_now_iso(), as every write of a row sets it.
Stamped(r, t) == [updated_at |-> t] @@ r

StampById(pkgs, id, t) == {IF r.id = id THEN Stamped(r, t) ELSE r : r \in pkgs}

\* The rows of `rows` that an ORDER BY archived ASC, updated_at DESC may put
\* first: SQLite leaves the order of rows with equal keys open.
FirstRows(rows) ==
    {r \in rows : \A q \in rows :
        \/ r.archived < q.archived
        \/ r.archived = q.archived /\ r.updated_at >= q.updated_at}

LatestLastRows(rows) ==
    {r \in rows : \A q \in rows :
        \/ r.archived < q.archived
        \/ r.archived = q.archived /\ r.updated_at <= q.updated_at}

RECURSIVE OrderedOldestFirst(_)
OrderedOldestFirst(rows) ==
    IF rows = {} THEN {<<>>}
    ELSE UNION {{<<r>> \o rest : rest \in OrderedOldestFirst(rows \ {r})} :
                  r \in LatestLastRows(rows)}

RECURSIVE OrderedRows(_)
OrderedRows(rows) ==
    IF rows = {} THEN {<<>>}
    ELSE UNION {{<<r>> \o rest : rest \in OrderedRows(rows \ {r})} :
                  r \in FirstRows(rows)}

\* list_packages(conn, include_archived): the lists the query may return.
ListPackagesOldestFirst(pkgs, include_archived) ==
    OrderedOldestFirst({r \in pkgs : include_archived \/ r.archived = 0})

ListPackages(pkgs, include_archived) ==
    OrderedRows({r \in pkgs : include_archived \/ r.archived = 0})

\* The clock reaches the next second.
ListTick ==
    /\ now + 1 \in Seconds
    /\ now' = now + 1
    /\ last' = [op |-> "tick"]
    /\ UNCHANGED <<packages, events, payloads, nextPkgId, nextEventId, inbox,
                   threads, processed, run, http>>

\* upsert_package: a new row, or an existing row written again.
ListTrack ==
    /\ \E number \in ListNumbers :
          \E r \in {upsert_package(packages, nextPkgId, number, 0, "",
                                   NONE, NONE, NONE, NONE)} :
             /\ r.nextPkgId <= MaxPackages + 1
             /\ packages' = StampById(r.packages, r.row.id, now)
             /\ nextPkgId' = r.nextPkgId
             /\ last' = [op |-> "track", pid |-> r.row.id]
    /\ UNCHANGED <<events, payloads, nextEventId, inbox, threads, processed,
                   run, http, now>>

\* UPDATE packages SET archived=1, updated_at=? WHERE id=?
ListArchive ==
    /\ \E row \in packages :
          /\ row.archived = 0
          /\ packages' = StampById(UpdateById(packages, row.id, NoCarrier, NONE, "1"),
                                   row.id, now)
          /\ last' = [op |-> "archive", pid |-> row.id]
    /\ UNCHANGED <<events, payloads, nextPkgId, nextEventId, inbox, threads,
                   processed, run, http, now>>

\* list_packages(conn, include_archived), as list and sync call it.
List ==
    /\ \E include_archived \in BOOLEAN :
          \E rows \in ListPackages(packages, include_archived) :
             last' = [op |-> "list", include_archived |-> include_archived,
                      rows |-> rows]
    /\ UNCHANGED <<packages, events, payloads, nextPkgId, nextEventId, inbox,
                   threads, processed, run, http, now>>

NextList == ListTick \/ ListTrack \/ ListArchive \/ List

SpecList == InitStore /\ [][NextList]_vars

-----------------------------------------------------------------------------
(* process-inbox: cmd_process_inbox drains the inbox into the store and    *)
(* the processed directory, one file at a time, while the receiver may     *)
(* spool new deliveries.                                                   *)

\* The deliveries the receiver spools and the runs of process-inbox, in the
\* model.
MaxArrivals == 3

MaxRuns == 2

\* spool as one step: the early return, the eviction and the two writes.
spool(files, raw_body, headers, ts, max_files) ==
    LET stem == <<ts, ShortSha(raw_body)>>
    IN  IF FileExists(files, stem, JsonSuffix)
        THEN files
        ELSE WriteFile(WriteFile(Evict(files, max_files), stem, JsonSuffix, raw_body),
                       stem, HeadersSuffix, headers)

\* The name of a file: [stem, suffix].
NameOf(f) == [stem |-> f.stem, suffix |-> f.suffix]

Names(files) == {NameOf(f) : f \in files}

HasName(files, name) == FileExists(files, name.stem, name.suffix)

ContentOf(files, name) ==
    (CHOOSE f \in files : NameOf(f) = name).content

\* sorted([f for f in inbox.glob("*.json") if f.is_file()])
RECURSIVE SortNames(_)
SortNames(S) ==
    IF S = {} THEN <<>>
    ELSE LET m == CHOOSE f \in S : \A g \in S \ {f} : Precedes(f, g)
         IN  <<m>> \o SortNames(S \ {m})

\* f.with_suffix(".headers.json"): the sidecar of a payload file; for a
\* sidecar X.headers.json it is X.headers.headers.json, which no one writes.
with_suffix(name) ==
    [stem   |-> name.stem,
     suffix |-> IF name.suffix = JsonSuffix THEN HeadersSuffix
                ELSE "headers.headers.json"]

\* json.loads(sidecar.read_text("utf-8")): the headers the sidecar records.
LoadSidecar(text) ==
    LET p == CHOOSE p \in InboxBodies \X InboxKinds : SidecarText(p[1], p[2]) = text
    IN  HeadersOf(p[1], p[2])

\* f.rename(dest): the file leaves the directory it was in and replaces a
\* file of its name in the other.
RenameFrom(files, name) == {f \in files : NameOf(f) # name}

RenameInto(dest, files, name) ==
    WriteFile(dest, name.stem, name.suffix, ContentOf(files, name))

\* The body of the loop of cmd_process_inbox for file name f, which is in
\* the inbox: the store, the inbox and the processed directory after it,
\* and the exception ingest_payload raised ("none" if none).
HandleOne(st, files, done, f, secret) ==
    LET raw     == ContentOf(files, f)
        sidecar == with_suffix(f)
        headers == IF HasName(files, sidecar)
                   THEN LoadSidecar(ContentOf(files, sidecar))
                   ELSE <<>>
        r       == ingest_payload(st, raw, headers, "webhook", secret)
    IN  [st        |-> r,
         raised    |-> r.raised,
         changed   |-> r.changed,
         inbox     |-> IF r.raised # "none" THEN files
                       ELSE IF HasName(files, sidecar)
                            THEN RenameFrom(RenameFrom(files, f), sidecar)
                            ELSE RenameFrom(files, f),
         processed |-> IF r.raised # "none" THEN done
                       ELSE IF HasName(files, sidecar)
                            THEN RenameInto(RenameInto(done, files, f), files, sidecar)
                            ELSE RenameInto(done, files, f)]

InboxHistory(op, file, raised) ==
    [last EXCEPT !.op = op, !.file = file, !.raised = raised]

NoFile == [stem |-> <<0, 0>>, suffix |-> NONE]

InitInbox ==
    /\ packages = {}
    /\ events = {}
    /\ payloads = {}
    /\ nextPkgId = 1
    /\ nextEventId = 1
    /\ inbox = {}
    /\ threads = <<>>
    /\ processed = {}
    /\ run = NoRun
    /\ http = NoHttp
    /\ now = 0
    /\ last = [op |-> "none", file |-> NoFile, raised |-> "none",
               arrivals |-> 0, runs |-> 0,
               files |-> <<>>, failures |-> {}, quiet |-> TRUE, rc |-> 0]

\* The receiver spools a delivery.  A run in progress is no longer quiet.
Arrive ==
    /\ last.arrivals < MaxArrivals
    /\ \E body \in InboxBodies, kind \in InboxKinds :
          inbox' = spool(inbox, body, SidecarText(body, kind), now, MaxFiles)
    /\ run' = IF run.pc = "loop" THEN [run EXCEPT !.quiet = FALSE] ELSE run
    /\ last' = [InboxHistory("arrive", NoFile, "none") EXCEPT !.arrivals = @ + 1]
    /\ UNCHANGED <<packages, events, payloads, nextPkgId, nextEventId,
                   threads, processed, http, now>>

\* cmd_process_inbox lists the inbox; with no file it prints "Inbox is
\* empty." and ends.
StartRun ==
    /\ run.pc = "idle"
    /\ last.runs < MaxRuns
    /\ run' = IF inbox = {} THEN NoRun
              ELSE [pc |-> "loop", files |-> SortNames(Names(inbox)), i |-> 1,
                    changed_count |-> 0, failures |-> {}, quiet |-> TRUE]
    /\ last' = [InboxHistory(IF inbox = {} THEN "inbox_empty" ELSE "listed",
                             NoFile, "none")
                  EXCEPT !.runs = @ + 1, !.rc = 0]
    /\ UNCHANGED <<packages, events, payloads, nextPkgId, nextEventId,
                   inbox, threads, processed, http, now>>

\* One turn of the loop.  f.read_bytes() is outside the try block: for a
\* file that is no longer in the inbox it raises FileNotFoundError and the
\* command ends there.  An exception of ingest_payload or of the renames is
\* caught and printed, and the file stays in the inbox.
HandleFile ==
    /\ run.pc = "loop"
    /\ run.i <= Len(run.files)
    /\ LET f == run.files[run.i]
       IN  IF ~HasName(inbox, f)
           THEN /\ run' = NoRun
                /\ last' = [InboxHistory("run_aborted", f, "FileNotFoundError")
                              EXCEPT !.files = run.files,
                                     !.failures = run.failures,
                                     !.quiet = run.quiet,
                                     !.rc = 1]
                /\ UNCHANGED <<packages, events, payloads, nextPkgId, nextEventId,
                               inbox, processed>>
           ELSE \E h \in {HandleOne(Store, inbox, processed, f, SenderKey)} :
                /\ packages' = h.st.packages
                /\ events' = h.st.events
                /\ payloads' = h.st.payloads
                /\ nextPkgId' = h.st.nextPkgId
                /\ nextEventId' = h.st.nextEventId
                /\ inbox' = h.inbox
                /\ processed' = h.processed
                /\ run' = [run EXCEPT
                             !.i = @ + 1,
                             !.changed_count = IF h.changed THEN @ + 1 ELSE @,
                             !.failures = IF h.raised = "none" THEN @ ELSE @ \cup {f}]
                /\ last' = InboxHistory(IF h.raised = "none" THEN "moved" ELSE "file_failed",
                                        f, h.raised)
    /\ UNCHANGED <<threads, http, now>>

\* After the loop: "Processed n inbox payload(s). Updated m package(s)."
\* and return 0, whatever the loop printed.
EndRun ==
    /\ run.pc = "loop"
    /\ run.i > Len(run.files)
    /\ run' = NoRun
    /\ last' = [InboxHistory("run_done", NoFile, "none")
                  EXCEPT !.files = run.files,
                         !.failures = run.failures,
                         !.quiet = run.quiet,
                         !.rc = 0]
    /\ UNCHANGED <<packages, events, payloads, nextPkgId, nextEventId,
                   inbox, threads, processed, http, now>>

NextInbox == Arrive \/ StartRun \/ HandleFile \/ EndRun

SpecInbox == InitInbox /\ [][NextInbox]_vars

-----------------------------------------------------------------------------
(* The provider API: _api_token, _http_json_post and the api_* operations. *)

\* The requests of the model.
MaxRequests == 3

\* TRACK17_TOKEN in the environment: unset, empty, or a token.
Tokens == {NONE, "", "tok"}

\* What the provider (or the network) does with one request: an HTTP
\* response with a status code, a body that is JSON or not and an optional
\* retry-after header in seconds (0: absent), or no response at all.
HttpResponse(code, is_json, retry_after) ==
    [kind |-> "http", code |-> code, is_json |-> is_json, retry_after |-> retry_after]

NetworkFailure ==
    [kind |-> "network", code |-> 0, is_json |-> FALSE, retry_after |-> 0]

FirstResponses ==
    {HttpResponse(200, TRUE, 0), HttpResponse(200, FALSE, 0),
     HttpResponse(429, FALSE, 0), HttpResponse(429, FALSE, 5),
     HttpResponse(500, FALSE, 0), HttpResponse(503, FALSE, 0),
     HttpResponse(404, FALSE, 0), NetworkFailure}

\* What the provider would do with a request sent again.
SecondResponses == {HttpResponse(200, TRUE, 0), HttpResponse(500, FALSE, 0)}

Scripts == {<<a, b>> : a \in FirstResponses, b \in SecondResponses}

\* The outcome of a call: the decoded JSON is returned, or Track17Error is
\* raised with one of four messages; the requests sent and the seconds
\* slept on the way.
Returned(code, attempts) ==
    [kind |-> "return", message |-> NONE, code |-> code,
     attempts |-> attempts, slept |-> 0]

Raised(message, code, attempts) ==
    [kind |-> "raise", message |-> message, code |-> code,
     attempts |-> attempts, slept |-> 0]

\* _http_json_post: one urlopen.  HTTPError (any status outside 2xx) and
\* URLError are raised as Track17Error, and so is a body that is not JSON.
_http_json_post(token, script) ==
    LET resp == script[1]
    IN  IF resp.kind = "network"
        THEN Raised("Network error talking to 17TRACK", 0, 1)
        ELSE IF resp.code \notin 200..299
        THEN Raised("HTTP code from 17TRACK", resp.code, 1)
        ELSE IF ~resp.is_json
        THEN Raised("Could not parse JSON from 17TRACK", resp.code, 1)
        ELSE Returned(resp.code, 1)

\* A variant of _api_token that rejects only an unset token.
_api_token_unset_only(tok, required) ==
    [raised |-> required /\ tok = NONE, tok |-> tok]

\* _api_token(required): raises when the token is required and is unset or
\* empty.
_api_token(tok, required) ==
    [raised |-> required /\ ~Truthy(tok), tok |-> tok]

\* The common body of the api_* operations.
ApiPost(tok, script) ==
    LET token == _api_token(tok, TRUE)
    IN  IF token.raised
        THEN Raised("TRACK17_TOKEN is not set", 0, 0)
        ELSE _http_json_post(token.tok, script)

api_register(tok, script) == ApiPost(tok, script)

api_gettrackinfo(tok, script) == ApiPost(tok, script)

api_getquota(tok, script) == ApiPost(tok, script)

api_stoptrack(tok, script) == ApiPost(tok, script)

api_retrack(tok, script) == ApiPost(tok, script)

api_changeinfo(tok, script) == ApiPost(tok, script)

api_deletetrack(tok, script) == ApiPost(tok, script)

Operations ==
    {"register", "gettrackinfo", "getquota", "stoptrack", "retrack",
     "changeinfo", "deletetrack"}

ApiCallOf(operation, tok, script) ==
    CASE operation = "register"     -> api_register(tok, script)
      [] operation = "gettrackinfo" -> api_gettrackinfo(tok, script)
      [] operation = "getquota"     -> api_getquota(tok, script)
      [] operation = "stoptrack"    -> api_stoptrack(tok, script)
      [] operation = "retrack"      -> api_retrack(tok, script)
      [] operation = "changeinfo"   -> api_changeinfo(tok, script)
      [] operation = "deletetrack"  -> api_deletetrack(tok, script)

InitApi ==
    /\ packages = {}
    /\ events = {}
    /\ payloads = {}
    /\ nextPkgId = 1
    /\ nextEventId = 1
    /\ inbox = {}
    /\ threads = <<>>
    /\ processed = {}
    /\ run = NoRun
    /\ http = NoHttp
    /\ now = 0
    /\ last = NoOp

\* One remote operation, with the token of the environment and whatever the
\* provider answers.
ApiCall ==
    /\ http.requests < MaxRequests
    /\ \E operation \in Operations, tok \in Tokens, script \in Scripts :
          \E r \in {ApiCallOf(operation, tok, script)} :
             /\ http' = [http EXCEPT !.requests = @ + r.attempts]
             /\ last' = [op |-> "api", operation |-> operation, token |-> tok,
                         script |-> script, result |-> r,
                         before |-> http.requests]
    /\ UNCHANGED <<packages, events, payloads, nextPkgId, nextEventId,
                   inbox, threads, processed, run, now>>

NextApi == ApiCall

SpecApi == InitApi /\ [][NextApi]_vars

-----------------------------------------------------------------------------
(* sync: cmd_sync polls the provider for every package that is not         *)
(* archived, one chunk of items per request, and applies what it returns.  *)

\* The items of one request (40 in the source) and the rejected items that
\* the output lists (10 in the source), scaled to the packages of the model.
CHUNK == 2

ReportLimit == 2

\* The packages sync polls, as (number, carrier).
SyncKeys == {<<"N1", 7>>, <<"N2", 7>>, <<"N3", 7>>}

\* The hash sync computes of an accepted item.
SyncSha == "h1"

\* What the provider (or the network) does with a gettrackinfo request.
SyncScripts ==
    {<<HttpResponse(200, TRUE, 0), HttpResponse(200, TRUE, 0)>>,
     <<NetworkFailure, HttpResponse(200, TRUE, 0)>>}

\* The top-level code of a response: 0, or an error code.
ResultCodes == {0, 0 - 18010013}

\* What the provider says of one item of a request: rejected, or accepted
\* with track info, or accepted as a package whose tracking is stopped.
Outcomes == {"accepted", "stopped", "rejected"}

\* str.lower() of the tracking statuses of the model.
LowerStatus(s) ==
    CASE s = "Stopped"  -> "stopped"
      [] s = "Tracking" -> "tracking"
      [] OTHER          -> s

\* The filter of --active-only: (r["tracking_status"] or "").lower() != "stopped"
NotStopped(r) == LowerStatus(Or(r.tracking_status, "")) # "stopped"

\* _build_trackinfo_items: one item per row, in the order of the rows.
_build_trackinfo_items(rows) ==
    [i \in 1..Len(rows) |-> [number |-> rows[i].number, carrier |-> rows[i].carrier]]

\* The orders a query may return a set of rows in.
Orders(rows) ==
    {s \in [1..Cardinality(rows) -> rows] :
        \A i, j \in 1..Cardinality(rows) : i # j => s[i] # s[j]}

\* list_packages(include_archived=False): the rows that are not archived,
\* in an order the rows' update times decide: any order, in the model.
list_packages(pkgs) == Orders({r \in pkgs : r.archived = 0})

\* The rows cmd_sync polls: with --active-only, those not stopped.
SyncRows(rows, active_only) ==
    IF active_only THEN SelectSeq(rows, NotStopped) ELSE rows

\* The accepted and the rejected entries of a response, in the order of the
\* request's items.
RECURSIVE SelectItems(_, _, _)
SelectItems(batch, outcome, which) ==
    IF batch = <<>> THEN <<>>
    ELSE (IF outcome[1] = which THEN <<batch[1]>> ELSE <<>>)
         \o SelectItems(Tail(batch), Tail(outcome), which)

RECURSIVE Accepted(_, _)
Accepted(batch, outcome) ==
    IF batch = <<>> THEN <<>>
    ELSE (IF outcome[1] = "rejected" THEN <<>>
          ELSE <<[number  |-> batch[1].number,
                  carrier |-> batch[1].carrier,
                  item    |-> IF outcome[1] = "stopped" THEN ItemX ELSE ItemA]>>)
         \o Accepted(Tail(batch), Tail(outcome))

Rejected(batch, outcome) ==
    LET sel == SelectItems(batch, outcome, "rejected")
    IN  [i \in 1..Len(sel) |->
            [number |-> sel[i].number, code |-> 0 - 18019902,
             message |-> "not registered"]]

\* _parse_gettrackinfo_response_items raises unless the code is 0.
_parse_gettrackinfo_response_items(code, batch, outcome) ==
    [raised   |-> code # 0,
     accepted |-> Accepted(batch, outcome),
     rejected |-> Rejected(batch, outcome)]

\* The loop over the accepted items: the newest row of the item's number
\* and carrier, or a new row, is updated from the item.
RECURSIVE ApplyAccepted(_, _, _)
ApplyAccepted(st, accepted, changed) ==
    IF accepted = <<>>
    THEN [st |-> st, changed |-> changed, raised |-> FALSE]
    ELSE LET acc  == Head(accepted)
             num  == _normalise_number(acc.number)
             same == {q \in st.packages : q.number = num /\ q.carrier = acc.carrier}
             up   == upsert_package(st.packages, st.nextPkgId, num, acc.carrier, "",
                                    NONE, "", DefaultLang, "True")
             pkg  == IF same # {}
                     THEN CHOOSE q \in same : \A o \in same : o.id <= q.id
                     ELSE up.row
             r    == apply_update_from_trackinfo(
                         IF same # {} THEN st.packages ELSE up.packages,
                         st.events, st.nextEventId, pkg, acc.item, SyncSha, "poll")
             st2  == [packages    |-> r.packages,
                      events      |-> r.events,
                      payloads    |-> st.payloads,
                      nextPkgId   |-> IF same # {} THEN st.nextPkgId ELSE up.nextPkgId,
                      nextEventId |-> r.nextEventId]
         IN  IF r.raised
             THEN [st |-> st2, changed |-> changed, raised |-> TRUE]
             ELSE ApplyAccepted(st2, Tail(accepted),
                                IF r.changed THEN changed + 1 ELSE changed)

\* The chunks of a list of n items, and the chunk that starts at item i.
NumChunks(n) == (n + CHUNK - 1) \div CHUNK

Batch(items, i) ==
    SubSeq(items, i, IF i + CHUNK - 1 < Len(items) THEN i + CHUNK - 1 ELSE Len(items))

\* The rejected items the output lists, and the number it only counts.
Reported(rejected_total) ==
    SubSeq(rejected_total, 1,
           IF Len(rejected_total) < ReportLimit THEN Len(rejected_total) ELSE ReportLimit)

InitSync ==
    /\ packages = {}
    /\ events = {}
    /\ payloads = {}
    /\ nextPkgId = 1
    /\ nextEventId = 1
    /\ inbox = {}
    /\ threads = <<>>
    /\ processed = {}
    /\ run = NoRun
    /\ http = NoHttp
    /\ now = 0
    /\ last = NoOp

\* A package is tracked: upsert_package, as add calls it.
SyncTrack ==
    /\ run.pc = "idle"
    /\ \E k \in SyncKeys :
          \E r \in {upsert_package(packages, nextPkgId, k[1], k[2], "",
                                   NONE, "", DefaultLang, "True")} :
             /\ FindByKey(packages, k[1], k[2], "") = {}
             /\ packages' = r.packages
             /\ nextPkgId' = r.nextPkgId
             /\ last' = [op |-> "track", pid |-> r.row.id]
    /\ UNCHANGED <<events, payloads, nextEventId, inbox, threads, processed,
                   run, http, now>>

\* cmd_sync up to the loop: with no row, "No packages to sync."
SyncStart ==
    /\ run.pc = "idle"
    /\ http.requests < MaxRequests
    /\ \E listed \in list_packages(packages), active_only \in BOOLEAN :
          \E rows \in {SyncRows(listed, active_only)} :
          /\ run' = IF rows = <<>> THEN NoRun
                    ELSE [pc |-> "sync", items |-> _build_trackinfo_items(rows),
                          i |-> 1, queried |-> 0, rejected_total |-> <<>>,
                          changed |-> 0, sent |-> <<>>,
                          active_only |-> active_only, before |-> packages]
          /\ last' = [op |-> IF rows = <<>> THEN "sync_empty" ELSE "sync_listed"]
    /\ UNCHANGED <<packages, events, payloads, nextPkgId, nextEventId,
                   inbox, threads, processed, http, now>>

\* One turn of the loop: the request for a chunk, the parsing of the
\* response and the application of the accepted items.  Neither
\* api_gettrackinfo nor _parse_gettrackinfo_response_items is called in a
\* try block: Track17Error leaves cmd_sync, and main prints it.
SyncChunk ==
    /\ run.pc = "sync"
    /\ run.i <= Len(run.items)
    /\ \E script \in SyncScripts, code \in ResultCodes,
          outcome \in [1..Len(Batch(run.items, run.i)) -> Outcomes] :
          \E batch \in {Batch(run.items, run.i)} :
          \E resp \in {api_gettrackinfo("tok", script)} :
          \E parsed \in {_parse_gettrackinfo_response_items(code, batch, outcome)} :
          \E a \in {ApplyAccepted(Store, parsed.accepted, run.changed)} :
             /\ http' = [http EXCEPT !.requests = @ + resp.attempts]
             /\ IF resp.kind = "raise" \/ parsed.raised
                THEN /\ run' = NoRun
                     /\ last' = [op |-> "sync_aborted",
                                 error |-> "Track17Error",
                                 items |-> run.items,
                                 queried |-> run.queried + 1,
                                 rejected_total |-> run.rejected_total,
                                 reported |-> <<>>,
                                 sent |-> run.sent \o <<batch>>,
                                 active_only |-> run.active_only,
                                 before |-> run.before]
                     /\ UNCHANGED <<packages, events, nextPkgId, nextEventId>>
                ELSE /\ packages' = a.st.packages
                     /\ events' = a.st.events
                     /\ nextPkgId' = a.st.nextPkgId
                     /\ nextEventId' = a.st.nextEventId
                     /\ run' = IF a.raised THEN NoRun
                               ELSE [run EXCEPT
                                       !.i = @ + CHUNK,
                                       !.queried = @ + 1,
                                       !.sent = @ \o <<batch>>,
                                       !.rejected_total = @ \o parsed.rejected,
                                       !.changed = a.changed]
                     /\ last' = IF a.raised
                                THEN [op |-> "sync_aborted",
                                      error |-> "AttributeError",
                                      items |-> run.items,
                                      queried |-> run.queried + 1,
                                      rejected_total |-> run.rejected_total,
                                      reported |-> <<>>,
                                      sent |-> run.sent \o <<batch>>,
                                      active_only |-> run.active_only,
                                      before |-> run.before]
                                ELSE [op |-> "sync_chunk",
                                      rejected |-> parsed.rejected,
                                      accepted |-> parsed.accepted,
                                      before |-> [packages |-> packages,
                                                  events |-> events]]
    /\ UNCHANGED <<payloads, inbox, threads, processed, now>>

\* After the loop: the rejected items, at most ReportLimit of them one by
\* one, and the packages that changed.
SyncOutput ==
    /\ run.pc = "sync"
    /\ run.i > Len(run.items)
    /\ run' = NoRun
    /\ last' = [op |-> "sync_done",
                error |-> NONE,
                items |-> run.items,
                queried |-> run.queried,
                rejected_total |-> run.rejected_total,
                reported |-> Reported(run.rejected_total),
                sent |-> run.sent,
                active_only |-> run.active_only,
                before |-> run.before]
    /\ UNCHANGED <<packages, events, payloads, nextPkgId, nextEventId,
                   inbox, threads, processed, http, now>>

NextSync == SyncTrack \/ SyncStart \/ SyncChunk \/ SyncOutput

SpecSync == InitSync /\ [][NextSync]_vars

-----------------------------------------------------------------------------
(* The poll path and the webhook path side by side: one item applied to    *)
(* the same store by the loop body of cmd_sync and by ingest_payload.      *)

PathCarriers == {0, 7}

PathParams == {"", "p"}

PathItems == {ItemA, ItemB}

PathSha == "h2"

PathSources == {"poll", "webhook"}

\* A package is tracked, with or without a param: upsert_package, as add
\* calls it.
PathTrack ==
    /\ nextPkgId <= MaxPackages
    /\ \E carrier \in PathCarriers, param \in PathParams :
          \E r \in {upsert_package(packages, nextPkgId, "N1", carrier, param,
                                   NONE, "", DefaultLang, "True")} :
             /\ FindByKey(packages, "N1", carrier, param) = {}
             /\ packages' = r.packages
             /\ nextPkgId' = r.nextPkgId
             /\ last' = [op |-> "track", pid |-> r.row.id]
    /\ UNCHANGED <<events, payloads, nextEventId, inbox, threads, processed,
                   run, http, now>>

\* The same item reaches the store by either path; both outcomes are
\* computed from the store as it is, and the store takes one of them.
PathApply ==
    /\ nextPkgId <= MaxPackages
    /\ \E carrier \in PathCarriers, item \in PathItems, source \in PathSources :
          \E poll \in {ApplyAccepted(Store, <<[number |-> "N1", carrier |-> carrier,
                                               item |-> item]>>, 0)},
             hook \in {IngestData(Store, Data("N1", carrier, "", NONE, item),
                                  PathSha, "webhook", NONE, NONE)} :
             \E taken \in {IF source = "poll" THEN poll.st ELSE hook} :
                /\ packages' = taken.packages
                /\ events' = taken.events
                /\ nextPkgId' = taken.nextPkgId
                /\ nextEventId' = taken.nextEventId
                /\ last' = [op |-> "apply", source |-> source,
                            poll |-> [packages |-> poll.st.packages,
                                      events |-> poll.st.events],
                            webhook |-> [packages |-> hook.packages,
                                         events |-> hook.events]]
    /\ UNCHANGED <<payloads, inbox, threads, processed, run, http, now>>

\* The carrier correction of add archives the row it has just written
\* when a row of the corrected carrier exists for the number and param.
PathArchive ==
    /\ \E row \in packages :
          /\ row.archived = 0
          /\ \E existing \in packages :
                /\ existing.number = row.number /\ existing.param = row.param
                /\ existing.carrier # row.carrier /\ existing.id < row.id
          /\ packages' = UpdateById(packages, row.id, NoCarrier, NONE, "1")
          /\ last' = [op |-> "archive", pid |-> row.id]
    /\ UNCHANGED <<events, payloads, nextPkgId, nextEventId, inbox, threads,
                   processed, run, http, now>>

NextPaths == PathTrack \/ PathApply \/ PathArchive

SpecPaths == InitStore /\ [][NextPaths]_vars

-----------------------------------------------------------------------------
(* The events of an item on their own: items that carry one or two events, *)
(* among them events whose description or location contains the "|" that   *)
(* event_hash joins the components with.                                   *)

EvBarDesc == Event("1", "t3", NONE, NoDT, "a|b", StrLoc("c"), NONE)

EvBarLoc == Event("1", "t3", NONE, NoDT, "a", StrLoc("b|c"), NONE)

HashEvents == {EvA, EvB, EvBarDesc, EvBarLoc}

EventLists == {<<e>> : e \in HashEvents} \cup (HashEvents \X HashEvents)

EventsCarriers == {7}

EventsShas == {"h1", "h2"}

\* A package is tracked.
EventsTrack ==
    /\ \E carrier \in EventsCarriers :
          \E r \in {upsert_package(packages, nextPkgId, "N1", carrier, "",
                                   NONE, "", DefaultLang, "True")} :
             /\ FindByKey(packages, "N1", carrier, "") = {}
             /\ packages' = r.packages
             /\ nextPkgId' = r.nextPkgId
             /\ last' = [op |-> "track", pid |-> r.row.id]
    /\ UNCHANGED <<events, payloads, nextEventId, inbox, threads, processed,
                   run, http, now>>

\* apply_update_from_trackinfo with an item of these events.
EventsApply ==
    /\ \E row \in packages, evs \in EventLists, sha \in EventsShas :
          \E r \in {apply_update_from_trackinfo(
                        packages, events, nextEventId, row,
                        Item(NONE, NONE,
                             TrackInfo(NONE, NONE, NONE, NONE, NoDT, NONE, NoLoc, evs)),
                        sha, SourceOf(sha))} :
             /\ packages' = r.packages
             /\ events' = r.events
             /\ nextEventId' = r.nextEventId
             /\ last' = [op |-> "apply", pid |-> row.id, evs |-> evs,
                         inserted |-> r.inserted]
    /\ UNCHANGED <<payloads, nextPkgId, inbox, threads, processed, run, http, now>>

NextEvents == EventsTrack \/ EventsApply

SpecEvents == InitStore /\ [][NextEvents]_vars

-----------------------------------------------------------------------------
(* The commands together: add, remove, stop, retrack, ingest-webhook and   *)
(* sync, one at a time, on one store.                                      *)

\* UPDATE packages SET tracking_status=? WHERE id=?
SetTrackingStatus(pkgs, id, status) ==
    {IF r.id = id THEN [r EXCEPT !.tracking_status = status] ELSE r : r \in pkgs}

\* cmd_stop and cmd_retrack: find the package, ask the provider, and on
\* acceptance write the tracking status.
StopOrRetrack(op, status) ==
    /\ run.pc = "idle"
    /\ \E key \in CommandKeys, resp \in ItemResponses :
          \E found \in {find_package(packages, key)} :
             /\ packages' = IF found = {} \/ resp = "rejected" THEN packages
                            ELSE SetTrackingStatus(packages,
                                                   (CHOOSE r \in found : TRUE).id, status)
             /\ last' = CommandHistory(op, found, resp)
    /\ UNCHANGED <<events, payloads, nextPkgId, nextEventId, inbox, threads,
                   processed, run, http, now>>

CmdStop == StopOrRetrack("stop", "Stopped")

CmdRetrack == StopOrRetrack("retrack", "Tracking")

\* cmd_ingest_webhook: ingest_payload of a body read from a file, with no
\* headers and no secret.
CmdIngestWebhook ==
    /\ run.pc = "idle"
    /\ nextPkgId <= MaxPackages
    /\ \E r \in {ingest_payload(Store, "B1", <<>>, "webhook", NONE)} :
          /\ packages' = r.packages
          /\ events' = r.events
          /\ payloads' = r.payloads
          /\ nextPkgId' = r.nextPkgId
          /\ nextEventId' = r.nextEventId
          /\ last' = [op |-> "ingest_webhook", pid |-> 0, rejected |-> FALSE,
                      rc |-> IF r.raised = "none" THEN 0 ELSE 1]
    /\ UNCHANGED <<inbox, threads, processed, run, http, now>>

\* cmd_add of a number with no label, with the provider's answer.
CmdAddPlain ==
    /\ nextPkgId <= MaxPackages
    /\ \E carrier \in AddCarriers, resp \in Responses :
          \E r \in {cmd_add(packages, nextPkgId, " N1", carrier, NONE, resp)} :
             /\ packages' = r.packages
             /\ nextPkgId' = r.nextPkgId
             /\ last' = [op |-> "add", pid |-> 0, rejected |-> resp = "rejected",
                         rc |-> IF r.raised THEN 1 ELSE 0,
                         carrier |-> carrier, new_carrier |-> r.new_carrier]
    /\ UNCHANGED <<events, payloads, nextEventId, inbox, threads, processed, run, http, now>>

\* The loop of cmd_sync as one step: the chunk numbered fails (0: none) is
\* answered with a failure, and in the others the provider says outcome[item]
\* of each item.
RECURSIVE SyncLoop(_, _, _, _, _)
SyncLoop(st, items, i, outcome, fails) ==
    IF i > Len(items) THEN [st |-> st, raised |-> FALSE]
    ELSE IF (i - 1) \div CHUNK + 1 = fails THEN [st |-> st, raised |-> TRUE]
    ELSE LET batch == Batch(items, i)
             a     == ApplyAccepted(st,
                                    Accepted(batch, [j \in 1..Len(batch) |-> outcome[batch[j]]]),
                                    0)
         IN  IF a.raised THEN [st |-> a.st, raised |-> TRUE]
             ELSE SyncLoop(a.st, items, i + CHUNK, outcome, fails)

\* What the provider says of an item of a sync of the commands' store.
CommandOutcomes == {"accepted", "rejected"}

\* cmd_sync as one step.
CmdSync ==
    /\ \E listed \in list_packages(packages), active_only \in BOOLEAN :
          \E items \in {_build_trackinfo_items(SyncRows(listed, active_only))} :
          \E fails \in {0, 1} :
          \E outcome \in IF fails = 1
                         THEN {[it \in {items[j] : j \in 1..Len(items)} |-> "rejected"]}
                         ELSE [{items[j] : j \in 1..Len(items)} -> CommandOutcomes] :
          \E r \in {SyncLoop(Store, items, 1, outcome, fails)} :
             /\ packages' = r.st.packages
             /\ events' = r.st.events
             /\ nextPkgId' = r.st.nextPkgId
             /\ nextEventId' = r.st.nextEventId
             /\ last' = [op |-> "sync", pid |-> 0, rejected |-> FALSE,
                         rc |-> IF r.raised THEN 1 ELSE 0]
    /\ UNCHANGED <<payloads, inbox, threads, processed, run, http, now>>

NextCommands ==
    \/ CmdAddPlain
    \/ CmdRemove
    \/ CmdStop
    \/ CmdRetrack
    \/ CmdIngestWebhook
    \/ CmdSync

SpecCommands == InitStore /\ [][NextCommands]_vars

-----------------------------------------------------------------------------
(* Claims about the reconciliation engine *)

CurrentRow(pid) == PackageById(packages, pid)

RowsOfEvent(pid, e) ==
    {r \in events : r.package_id = pid /\ r.event_hash = event_hash(e)}

ItemEvents(item) == IF item.is_dict THEN iter_events(item.ti) ELSE <<>>

\* C1: when apply_update_from_trackinfo is applied a second time with the
\* same item, the second application raises no error, inserts no event row,
\* and the package has exactly one event row per event of the item.
C1_IdempotentEventIngestion ==
    (last.op = "apply" /\ last.repeat) =>
        /\ ~last.raised
        /\ last.inserted = 0
        /\ \A i \in 1..Len(ItemEvents(last.item)) :
              Cardinality(RowsOfEvent(last.pid, ItemEvents(last.item)[i])) = 1

\* The value of each merged column that the incoming item carries.
Incoming(item) ==
    LET latest == extract_latest_fields(IF item.is_dict THEN item.ti ELSE EmptyTrackInfo)
    IN  [tracking_status     |-> item.tracking_status,
         package_status      |-> item.package_status,
         last_status         |-> latest.last_status,
         last_sub_status     |-> latest.last_sub_status,
         last_event_time_utc |-> latest.last_event_time_utc,
         last_event_desc     |-> latest.last_event_desc,
         last_location       |-> latest.last_location]

MergedColumns ==
    {"tracking_status", "package_status", "last_status", "last_sub_status",
     "last_event_time_utc", "last_event_desc", "last_location"}

\* C3: after apply_update_from_trackinfo each merged column equals the
\* incoming value when one is present and the stored value otherwise.
C3_MergeNeverRegresses ==
    (last.op = "apply") =>
        \A c \in MergedColumns :
            CurrentRow(last.pid)[c] =
                IF Incoming(last.item)[c] # NONE
                THEN Incoming(last.item)[c]
                ELSE last.prev[c]

\* C4: apply_update_from_trackinfo completes without error; with a content
\* hash it reports changed exactly when the hash differs from the stored
\* one, and without one exactly when a latest field of the item is present
\* and differs from the stored value.
C4_ChangeDetection ==
    (last.op = "apply") =>
        /\ ~last.raised
        /\ (last.sha # NONE) =>
              (last.changed <=> last.sha # last.prev.last_payload_sha)
        /\ (last.sha = NONE) =>
              (last.changed <=>
                  \E i \in 1..Len(LatestKeys) :
                      /\ Incoming(last.item)[LatestKeys[i]] # NONE
                      /\ Incoming(last.item)[LatestKeys[i]] # last.prev[LatestKeys[i]])

\* An event row without its id.
EventCols(r) ==
    [package_id |-> r.package_id, provider_key |-> r.provider_key,
     time_utc |-> r.time_utc, time_iso |-> r.time_iso,
     description |-> r.description, location |-> r.location, stage |-> r.stage,
     sub_status |-> r.sub_status, raw_json |-> r.raw_json,
     event_hash |-> r.event_hash]

EventColsOf(evs) == {EventCols(r) : r \in evs}

\* The events after item i1 (hash s1) and then item i2 (hash s2) are applied
\* to the package of row.
EventsAfterBoth(row, i1, s1, i2, s2) ==
    LET a == apply_update_from_trackinfo(packages, events, nextEventId,
                                         row, i1, s1, SourceOf(s1))
        b == apply_update_from_trackinfo(a.packages, a.events, a.nextEventId,
                                         row, i2, s2, SourceOf(s2))
    IN  b.events

RowsOfItem(pid, item) ==
    {EventCols(EventRow(0, pid, ItemEvents(item)[i])) : i \in 1..Len(ItemEvents(item))}

\* C5: for any two items applied to a package, the event rows that result
\* are the same in both orders, and are the rows already stored together
\* with the rows of the events of both items.
C5_OrderIndependence ==
    \A row \in packages, i1 \in Items, i2 \in Items, s1 \in Shas, s2 \in Shas :
        /\ EventColsOf(EventsAfterBoth(row, i1, s1, i2, s2))
              = EventColsOf(EventsAfterBoth(row, i2, s2, i1, s1))
        /\ EventColsOf(EventsAfterBoth(row, i1, s1, i2, s2))
              = EventColsOf(events) \cup RowsOfItem(row.id, i1) \cup RowsOfItem(row.id, i2)

-----------------------------------------------------------------------------
(* Claims about webhook ingestion *)

\* The row of payloads that ingest_payload's last call stored or found.
Recorded == CHOOSE r \in PayloadRowOf(payloads, last.raw) : TRUE

\* The last call was an ingest_payload that reached store_payload.
IngestStored == last.op = "ingest" /\ last.raised # "UnicodeDecodeError"

\* The value of the signature header the last call found, or NoValue.
FoundValue == guess_signature_header(HeadersOf(last.raw, last.kind))[2]

\* The stores that differ from pls in the signature and signature_valid
\* columns only.
SansVerdict(pls) ==
    {[source |-> r.source, event_type |-> r.event_type, number |-> r.number,
      carrier |-> r.carrier, sha256 |-> r.sha256, raw_json |-> r.raw_json] : r \in pls}

\* C2 (idempotent payload ingestion): payloads holds at most one row per
\* content hash and per raw body; a call that reaches store_payload leaves
\* exactly one row for its body; and store_payload of a body that is
\* stored, with any signature and verdict, leaves the table as it is (the
\* row found before the call is the row after it).
C2_IdempotentPayloadIngestion ==
    /\ \A raw \in Bodies :
          /\ Cardinality({r \in payloads : r.sha256 = Sha256Hex(raw)}) <= 1
          /\ Cardinality({r \in payloads : r.raw_json = DecodeReplace(raw)}) <= 1
          /\ PayloadStored(payloads, Sha256Hex(raw)) =>
                \A kind \in HeaderKinds, v \in {NONE, "0", "1"} :
                    store_payload(payloads, raw, "webhook",
                                  guess_signature_header(HeadersOf(raw, kind))[2], v)
                        = payloads
    /\ IngestStored =>
          /\ Cardinality(PayloadRowOf(payloads, last.raw)) = 1
          /\ last.before # {} => PayloadRowOf(payloads, last.raw) = last.before

\* C2's case: a body that is stored is ingested again, with other headers.
C2_Witness ==
    /\ IngestStored
    /\ last.before # {}
    /\ last.kind = "bad"
    /\ Recorded.signature_valid = "1"

-----------------------------------------------------------------------------
(* Claims about the receiver's spool directory *)

PayloadFiles(files) == {f \in files : f.suffix = JsonSuffix}

Sidecars(files) == {f \in files : f.suffix = HeadersSuffix}

\* Every payload file has its sidecar and every sidecar its payload file.
Paired(files) ==
    /\ \A f \in PayloadFiles(files) : FileExists(files, f.stem, HeadersSuffix)
    /\ \A f \in Sidecars(files) : FileExists(files, f.stem, JsonSuffix)

\* A spool call has just written its sidecar, and every request so far came
\* after the one before it had finished, with a body of its own.
SpooledInTurn ==
    /\ last.op = "spooled"
    /\ last.clean
    /\ \A t \in Threads : threads[t].pc = "idle"

\* C9 (backpressure eviction): after each of the spools of distinct
\* payloads, one after another, the inbox holds at most MaxFiles files, and
\* after spool MaxFiles + 1 exactly MaxFiles, the oldest payload gone with
\* its sidecar.  The files counted are either all the files of the inbox, or
\* the payload files, each of which then has its sidecar.
C9_BackpressureEviction ==
    SpooledInTurn =>
        \/ /\ Cardinality(inbox) <= MaxFiles
           /\ last.done = MaxFiles + 1 => Cardinality(inbox) = MaxFiles
        \/ /\ Cardinality(PayloadFiles(inbox)) <= MaxFiles
           /\ last.done = MaxFiles + 1 =>
                 /\ Cardinality(PayloadFiles(inbox)) = MaxFiles
                 /\ Paired(inbox)

\* C10 (idempotent spooling): spool never writes a file that exists; and
\* when a spool call returns because the file of its derived name exists,
\* no other call being in progress, the inbox holds that payload file and
\* its sidecar.
C10_IdempotentSpooling ==
    /\ last.op \in {"write", "spooled"} => ~last.existed
    /\ (last.op = "return" /\ \A t \in Threads : threads[t].pc = "idle") =>
          /\ FileExists(inbox, last.stem, JsonSuffix)
          /\ FileExists(inbox, last.stem, HeadersSuffix)

-----------------------------------------------------------------------------
(* Claims about the add command *)

\* The rows of (number, carrier, "") that are not archived.
ActiveRows(number, carrier) ==
    {r \in FindByKey(packages, number, carrier, "") : r.archived = 0}

\* C8 (carrier correction): after an add with carrier 0 that the provider
\* accepted with a resolved carrier c # 0, there is exactly one non-archived
\* row for (number, c, param) and none for (number, 0, param), whatever the
\* store held before.
C8_CarrierCorrection ==
    (/\ last.op = "add"
     /\ last.carrier = 0
     /\ ~last.raised
     /\ last.new_carrier # 0) =>
        /\ Cardinality(ActiveRows(last.number, last.new_carrier)) = 1
        /\ ActiveRows(last.number, 0) = {}

-----------------------------------------------------------------------------
(* Claims about the webhook handler *)

SpoolPositions == {"check", "evict", "write", "side"}

\* C11 (acknowledge before processing): a request thread writes the 200
\* response after it has read the body and before spool starts; while spool
\* runs the sender has the 200; and when spool ends, by returning early, by
\* writing its files or by failing, the response the sender received is
\* still the 200.
C11_AcknowledgeBeforeProcessing ==
    /\ \A t \in Threads :
          /\ threads[t].pc = "respond" =>
                (threads[t].body # NONE /\ threads[t].response = NONE)
          /\ threads[t].pc \in SpoolPositions =>
                (threads[t].body # NONE /\ threads[t].response = "200")
    /\ last.op \in {"return", "spooled", "failed"} => last.response = "200"

\* C11's case: spool failed after the response was written.
C11_Witness ==
    /\ last.op = "failed"
    /\ last.response = "200"
    /\ ~FileExists(inbox, last.stem, HeadersSuffix)

\* C12 (the receiver never touches the store): no step of do_POST or spool
\* changes the packages, events or payloads tables or their id counters,
\* the processed directory or a command's run, or sends a request to the
\* provider.
C12_ReceiverLeavesStoreAlone ==
    [][/\ packages' = packages
       /\ events' = events
       /\ payloads' = payloads
       /\ nextPkgId' = nextPkgId
       /\ nextEventId' = nextEventId
       /\ processed' = processed
       /\ run' = run
       /\ http' = http]_vars

\* C12's case: a request was handled to its end and its files are in the
\* inbox.
C12_Witness ==
    /\ last.op = "spooled"
    /\ FileExists(inbox, last.stem, JsonSuffix)
    /\ FileExists(inbox, last.stem, HeadersSuffix)
    /\ \A t \in Threads : threads[t].pc = "idle"

-----------------------------------------------------------------------------
(* Claims about process-inbox *)

\* The payload files of a listing: the files the receiver wrote a delivery
\* body into.
ListedPayloads(files) ==
    {files[i] : i \in {j \in 1..Len(files) : files[j].suffix = JsonSuffix}}

\* The listing is in ascending filename order.
Ascending(files) ==
    \A i, j \in 1..Len(files) : i < j => Precedes(files[i], files[j])

\* C13 (inbox drain): a run of process-inbox handles the files that were in
\* the inbox when it started in ascending filename order, and when it ends
\* every payload file of that listing and its sidecar have left the inbox
\* and the payload file is in the processed directory, so that a later run
\* does not ingest it again.  Stated for runs during which no delivery
\* arrived, so that no file of the listing was written again or evicted.
C13_InboxDrain ==
    /\ run.pc = "loop" => Ascending(run.files)
    /\ (last.op = "run_done" /\ last.quiet) =>
          \A f \in ListedPayloads(last.files) :
             /\ ~HasName(inbox, f)
             /\ ~HasName(inbox, with_suffix(f))
             /\ HasName(processed, f)

\* C14 (per-file failure isolation): a run never ends before its last file:
\* a file whose handling fails is reported as failed and the run goes on to
\* the next file of its listing.
C14_PerFileFailureIsolation ==
    /\ last.op # "run_aborted"
    /\ last.op = "file_failed" =>
          (run.pc = "loop" /\ last.file \in run.failures)

-----------------------------------------------------------------------------
(* Claims about the provider API *)

\* A call that reached the network: the token was set.
Sent == last.op = "api" /\ Truthy(last.token)

\* The responses the retry policy is about.
Retryable(resp) == resp.kind = "network" \/ resp.code \in {429, 500, 503}

\* The least sleep the policy allows before the second attempt: the
\* retry-after seconds, or 2, for 429; 2^attempt >= 1 otherwise.
SleepBase(resp) ==
    IF resp.kind = "http" /\ resp.code = 429
    THEN (IF resp.retry_after # 0 THEN resp.retry_after ELSE 2)
    ELSE 1

\* C15 (retry policy): a call whose first attempt ends in 429, 500, 503 or
\* a network failure is sent again, after a sleep of at least the base of
\* the policy.
C15_RetryPolicy ==
    (Sent /\ Retryable(last.script[1])) =>
        /\ last.result.attempts >= 2
        /\ last.result.slept >= SleepBase(last.script[1])

\* C16 (bounded retries): a call makes no more attempts than the provider
\* has answers in the model, and a call whose last attempt still ended in a
\* retryable failure returns that status to its caller instead of raising.
C16_BoundedRetries ==
    Sent =>
        /\ last.result.attempts \in 1..Len(last.script)
        /\ Retryable(last.script[last.result.attempts]) =>
              /\ last.result.kind = "return"
              /\ last.result.code = last.script[last.result.attempts].code

\* C17 (other statuses): a call whose first attempt ends in a status
\* outside 2xx other than 429, 500 and 503 makes exactly one attempt and
\* returns that status to its caller.
C17_OtherStatusReturnedAtOnce ==
    (/\ Sent
     /\ last.script[1].kind = "http"
     /\ last.script[1].code \notin 200..299
     /\ ~Retryable(last.script[1])) =>
        /\ last.result.attempts = 1
        /\ last.result.kind = "return"
        /\ last.result.code = last.script[1].code

\* C18 (missing token): with the token unset or empty, each of the seven
\* remote operations raises the configuration error and sends no request.
C18_MissingToken ==
    (last.op = "api" /\ last.token \in {NONE, ""}) =>
        /\ last.result.kind = "raise"
        /\ last.result.message = "TRACK17_TOKEN is not set"
        /\ last.result.attempts = 0
        /\ http.requests = last.before

C18_Witness ==
    /\ last.op = "api"
    /\ last.token = ""
    /\ last.operation = "getquota"
    /\ last.before > 0
    /\ last.result.message = "TRACK17_TOKEN is not set"
    /\ http.requests = last.before

-----------------------------------------------------------------------------
(* Claims about sync *)

\* The package rows of a number, and the event rows of those packages.
RowsOfNumber(pkgs, number) == {r \in pkgs : r.number = number}

EventsOfNumber(pkgs, evs, number) ==
    {e \in evs : \E r \in RowsOfNumber(pkgs, number) : e.package_id = r.id}

\* C19 (rejected items in sync): a chunk changes no package row and no
\* event row of a number the provider rejected, and the output of a sync
\* that reaches its end lists every rejected item, with its number, code
\* and message, however many there are.
C19_RejectedItems ==
    /\ last.op = "sync_chunk" =>
          \A k \in 1..Len(last.rejected) :
             LET number == last.rejected[k].number
             IN  /\ RowsOfNumber(packages, number)
                      = RowsOfNumber(last.before.packages, number)
                 /\ EventsOfNumber(packages, events, number)
                      = EventsOfNumber(last.before.packages, last.before.events, number)
    /\ last.op = "sync_done" => last.reported = last.rejected_total

\* C20 (batch continuation in sync): a sync ends only after it has queried
\* every chunk of its items, whether or not the query of a chunk failed.
C20_BatchContinuation ==
    last.op \in {"sync_done", "sync_aborted"} =>
        last.queried = NumChunks(Len(last.items))

\* The packages a sync has to poll, given the rows of the store when it
\* began: those not archived and, with --active-only, not stopped.
ToPoll(pkgs, active_only) ==
    {[number |-> r.number, carrier |-> r.carrier] :
        r \in {q \in pkgs : q.archived = 0 /\ (active_only => NotStopped(q))}}

\* The positions of the query calls of a sync an item is sent at.
SentAt(sent, item) ==
    {<<k, j>> \in (1..Len(sent)) \X (1..CHUNK) :
        j <= Len(sent[k]) /\ sent[k][j] = item}

\* C21 (chunking): when a sync ends, every package it had to poll was sent
\* in exactly one query call, nothing else was sent, and no query call
\* carried more than CHUNK items.
C21_Chunking ==
    last.op \in {"sync_done", "sync_aborted"} =>
        /\ \A item \in ToPoll(last.before, last.active_only) :
              Cardinality(SentAt(last.sent, item)) = 1
        /\ \A k \in 1..Len(last.sent) :
              /\ Len(last.sent[k]) \in 1..CHUNK
              /\ \A j \in 1..Len(last.sent[k]) :
                    last.sent[k][j] \in ToPoll(last.before, last.active_only)

-----------------------------------------------------------------------------
(* Claims about the package operations *)

\* The columns of packages that upsert_package may write on an existing
\* row, and the value the contract gives each: the supplied one, or the
\* row's own when none is supplied.
SuppliedOr(supplied, own) == IF supplied # NONE THEN supplied ELSE own

SuppliedFlagOr(supplied, own) ==
    IF supplied = NONE THEN own ELSE IF supplied = "True" THEN 1 ELSE 0

\* The row the contract promises for a key no row has.
DefaultedRow(row, number, carrier, param, label, tag, lang, api_registered) ==
    /\ row.number = number /\ row.carrier = carrier /\ row.param = param
    /\ row.label = label
    /\ row.tag = (IF tag \in {NONE, ""} THEN "" ELSE tag)
    /\ row.lang = (IF lang \in {NONE, ""} THEN "en" ELSE lang)
    /\ row.api_registered = (IF api_registered = "True" THEN 1 ELSE 0)
    /\ row.tracking_status = NONE /\ row.package_status = NONE
    /\ row.last_status = NONE /\ row.last_sub_status = NONE
    /\ row.last_event_time_utc = NONE /\ row.last_event_desc = NONE
    /\ row.last_location = NONE /\ row.last_payload_sha = NONE
    /\ row.archived = 0

\* C22 (upsert contract): upsert_package on a key no row has adds one row
\* with defaulted fields and a new id; on a key a row has it changes, in
\* that row alone, only those of label, tag, lang and api_registered that
\* were supplied; either way it returns the resulting row.
C22_UpsertContract ==
    last.op = "upsert" =>
        LET number == IF last.number = " N1" THEN "N1" ELSE last.number
            param  == IF last.param = NONE THEN "" ELSE last.param
            held   == {r \in last.before : /\ r.number = number
                                           /\ r.carrier = last.carrier
                                           /\ r.param = param}
        IN  /\ last.row \in packages
            /\ held = {} =>
                  /\ packages = last.before \cup {last.row}
                  /\ \A r \in last.before : r.id # last.row.id
                  /\ DefaultedRow(last.row, number, last.carrier, param, last.label,
                                  last.tag, last.lang, last.api_registered)
            /\ held # {} =>
                  \E old \in held :
                     /\ held = {old}
                     /\ packages = (last.before \ {old}) \cup {last.row}
                     /\ last.row =
                          [old EXCEPT
                             !.label = SuppliedOr(last.label, @),
                             !.tag   = SuppliedOr(last.tag, @),
                             !.lang  = SuppliedOr(last.lang, @),
                             !.api_registered = SuppliedFlagOr(last.api_registered, @)]

\* An update of a row that has a tag, a status and is archived, with only
\* the label supplied.
C22_Witness ==
    /\ last.op = "upsert"
    /\ last.tag = NONE /\ last.lang = NONE /\ last.api_registered = NONE
    /\ last.label = "desk"
    /\ \E old \in last.before :
          /\ old.id = last.row.id
          /\ old.tag = "t"
          /\ old.label = NONE
          /\ old.last_status # NONE
          /\ old.archived = 1
    /\ last.row.tag = "t"

\* A remove command that deleted the row of id pid has just ended.
Removed(h, pid) == h.op = "remove" /\ h.rc = 0 /\ h.pid = pid

\* C23 (identity uniqueness): in every state the commands reach, no two
\* package rows have the same (number, carrier, param), and an add the
\* provider accepted, carrier correction or not, ends without an error.
C23_IdentityUniqueness ==
    /\ \A r, q \in packages :
          (r.number = q.number /\ r.carrier = q.carrier /\ r.param = q.param) => r = q
    /\ (last.op = "add" /\ ~last.rejected) => last.rc = 0

\* An add with carrier 0, corrected to a carrier for which another row
\* stands.
C23_Witness ==
    /\ last.op = "add" /\ last.rc = 0
    /\ last.carrier = 0 /\ last.new_carrier = 7
    /\ Cardinality({r.carrier : r \in packages}) = 2

\* C24 (event lifecycle): every event row references a package row; a step
\* keeps every event row as it is, except a remove, which deletes the
\* events of the package it removes, and all of them.
C24_EventLifecycle ==
    /\ [](\A e \in events : \E r \in packages : r.id = e.package_id)
    /\ [][/\ \A e \in events : e \in events' \/ Removed(last', e.package_id)
          /\ \A e \in events' : ~Removed(last', e.package_id)]_vars

\* A remove has deleted the only package, which had events.
C24_Witness ==
    /\ last.op = "remove" /\ last.rc = 0
    /\ nextEventId > 1
    /\ events = {}
    /\ packages = {}

\* C25 (package removal): a step deletes a package row only if it is the
\* remove command deleting that row; and after an add whose carrier was
\* corrected to one for which a row stood, the row of the add's own carrier
\* is there, archived.
C25_PackageRemoval ==
    [][/\ \A r \in packages :
             (\E q \in packages' : q.id = r.id) \/ Removed(last', r.id)
       /\ (/\ last'.op = "add" /\ last'.rc = 0
           /\ last'.carrier # last'.new_carrier
           /\ FindByKey(packages, "N1", last'.new_carrier, "") # {}) =>
             \E q \in packages' :
                q.number = "N1" /\ q.carrier = last'.carrier /\ q.archived = 1]_vars

\* An add superseded the row of carrier 0, which is archived beside the row
\* of the resolved carrier, which is not.
C25_Witness ==
    /\ last.op = "add" /\ last.rc = 0
    /\ last.carrier = 0 /\ last.new_carrier = 7
    /\ \E r, q \in packages :
          /\ r.carrier = 0 /\ r.archived = 1
          /\ q.carrier = 7 /\ q.archived = 0

\* C26 (single-item rejection): a step of add, stop, retrack or remove in
\* which the provider rejected the item ends with an error and leaves the
\* package rows as they were.
C26_RejectionLeavesStoreUnchanged ==
    [][(last'.op \in {"add", "stop", "retrack", "remove"} /\ last'.rejected) =>
          (last'.rc # 0 /\ packages' = packages /\ events' = events)]_vars

\* The rows a key names: by identifier, for a key of digits, and by
\* tracking number with the whitespace removed.
NamedById(key) ==
    {r \in packages : key.kind \in {"id", "digits"} /\ r.id = key.id}

NamedByNumber(key) ==
    LET number == CASE key.number = " N1" -> "N1"
                    [] OTHER -> key.number
    IN  {r \in packages : key.number # NONE /\ r.number = number}

\* C27 (find_package): a lookup ends without an error; it returns the row
\* the key names by identifier, else the most recent of the rows the key
\* names by number, and nothing when there is neither.
C27_FindPackage ==
    last.op = "find" =>
        /\ last.raised = "none"
        /\ NamedById(last.key) # {} => last.found = NamedById(last.key)
        /\ (NamedById(last.key) = {} /\ NamedByNumber(last.key) # {}) =>
              /\ Cardinality(last.found) = 1
              /\ last.found \subseteq NamedByNumber(last.key)
              /\ \A r \in last.found :
                    \A q \in NamedByNumber(last.key) : q.id <= r.id
        /\ (NamedById(last.key) = {} /\ NamedByNumber(last.key) = {}) =>
              last.found = {}

\* C28 (list_packages): a list has every package once, or every
\* non-archived package once when archived ones are not asked for; no
\* archived row precedes a non-archived one, and of two rows of the same
\* group the earlier in the list was not updated before the later.
C28_ListOrder ==
    last.op = "list" =>
        LET rows == last.rows
        IN  /\ {rows[i] : i \in 1..Len(rows)} =
                  {r \in packages : last.include_archived \/ r.archived = 0}
            /\ Len(rows) = Cardinality({rows[i] : i \in 1..Len(rows)})
            /\ \A i, j \in 1..Len(rows) :
                  i < j =>
                     /\ rows[i].archived <= rows[j].archived
                     /\ rows[i].archived = rows[j].archived =>
                           rows[i].updated_at >= rows[j].updated_at

\* A list of three rows, an archived one last, the two others updated in
\* different seconds.
C28_Witness ==
    /\ last.op = "list" /\ last.include_archived /\ Len(last.rows) = 3
    /\ last.rows[3].archived = 1 /\ last.rows[2].archived = 0
    /\ last.rows[1].updated_at > last.rows[2].updated_at
    /\ last.rows[3].updated_at > last.rows[1].updated_at

-----------------------------------------------------------------------------
(* Claims about the exit codes.                                            *)

\* C29 (exit codes): a process-inbox command that ends has exit code 0
\* when no file failed and no exception left it, and a non-zero exit code
\* when a file failed or an exception left it; no error ends with 0.
C29_ExitCodes ==
    last.op \in {"inbox_empty", "run_done", "run_aborted"} =>
        (last.rc = 0 <=> (last.failures = {} /\ last.raised = "none"))

-----------------------------------------------------------------------------
(* Claims about the two update paths.                                      *)

\* The rows without the stored content hash.
WithoutSha(pkgs) == {[r EXCEPT !.last_payload_sha = NONE] : r \in pkgs}

\* C30 (poll and webhook equivalence): from the same store, an item
\* applied by sync and the same item applied as the data of a webhook
\* payload leave the same package rows, the stored content hash apart, and
\* the same event rows.
C30_PathEquivalence ==
    last.op = "apply" =>
        /\ WithoutSha(last.poll.packages) = WithoutSha(last.webhook.packages)
        /\ last.poll.events = last.webhook.events

-----------------------------------------------------------------------------
(* Claims about the push path from the receiver to the store.              *)

\* C31 (recorded headers are verified): every payload the receiver spooled
\* with a signature header in its sidecar is, once process-inbox has stored
\* it, recorded as valid or invalid, never without a verdict.
C31_SidecarSignatureVerified ==
    \A body \in InboxBodies :
        \A r \in PayloadRowOf(payloads, body) : r.signature_valid \in {"1", "0"}

\* C32 (only payloads are ingested): the files a finished run counts as
\* processed are payload files, none of them a sidecar, and no row of the
\* payloads table holds the text of a sidecar.
C32_OnlyPayloadsIngested ==
    /\ last.op = "run_done" =>
          \A i \in 1..Len(last.files) : last.files[i].suffix = JsonSuffix
    /\ \A text \in SidecarTexts : PayloadRowOf(payloads, text) = {}

-----------------------------------------------------------------------------
(* Claims about repeated and failed applications.                          *)

\* The status fields, latest fields and stored content hash of the rows.
StatusView(pkgs) ==
    {[id |-> r.id,
      tracking_status |-> r.tracking_status, package_status |-> r.package_status,
      last_status |-> r.last_status, last_sub_status |-> r.last_sub_status,
      last_event_time_utc |-> r.last_event_time_utc,
      last_event_desc |-> r.last_event_desc, last_location |-> r.last_location,
      last_payload_sha |-> r.last_payload_sha] : r \in pkgs}

\* C33 (duplicate delivery is harmless at any point): an ingestion of a
\* payload with a data object that is already stored, whatever was ingested
\* since, reports changed = false and leaves the status fields, the latest
\* fields and the stored content hash of every package as they were.
C33_DuplicateDeliveryHarmless ==
    [][(/\ last'.op = "ingest"
        /\ PayloadRowOf(payloads, last'.raw) # {}
        /\ parse_webhook_payload(last'.raw).has_data) =>
           (~last'.changed /\ StatusView(packages') = StatusView(packages))]_vars

\* C34 (newly inserted events are reported): an application that returns
\* and has inserted k >= 1 event rows returns a summary with the count k,
\* with a content hash and without one.  (An item with the hash of the
\* application before it is that same item: equal hashes of different
\* items are left out.)
C34_InsertedEventsReported ==
    (/\ last.op = "apply" /\ ~last.raised /\ last.inserted >= 1
     /\ (last.sha = NONE \/ last.sha # last.prev.last_payload_sha)) =>
        last.summary.events_added = last.inserted

\* C35 (a failed ingestion leaves the store unchanged): an ingestion that
\* fails because its body is not valid JSON has added or modified no
\* payload row, no package row and no event row.
C35_FailedIngestionLeavesStore ==
    [][(last'.op = "ingest" /\ last'.raised = "Track17Error") =>
          (payloads' = payloads /\ packages' = packages /\ events' = events)]_vars

-----------------------------------------------------------------------------
(* Claims about the package an item is applied to.                         *)

\* C36 (no duplicate active package from carrier resolution): applying an
\* item by sync or by webhook ingestion creates no non-archived row for a
\* number and param that a non-archived row already has, whatever carrier
\* the item names.
C36_NoDuplicateActivePackage ==
    [][last'.op = "apply" =>
          \A q \in packages' :
             (q.archived = 0 /\ \A r \in packages : r.id # q.id) =>
                ~\E r \in packages :
                    r.number = q.number /\ r.param = q.param /\ r.archived = 0]_vars

\* C37 (sync updates the right package): an item without param that sync
\* applies changes no row with a param and no archived row; the rows that
\* are archived stay as they are.
C37_SyncUpdatesRightPackage ==
    [][(last'.op = "apply" /\ last'.source = "poll") =>
          \A r \in packages :
             /\ r.archived = 1 => r \in packages'
             /\ r \notin packages' => r.param = ""]_vars

-----------------------------------------------------------------------------
(* Claims about the receiver's threads and the processor.                  *)

\* C38 (cap under concurrency): when every receiver thread has finished
\* and no write has failed, the inbox holds at most MaxFiles payload files,
\* every payload file has its sidecar and every sidecar its payload file.
C38_CapUnderConcurrency ==
    (last.intact /\ \A t \in Threads : threads[t].pc = "idle") =>
        /\ Cardinality(PayloadFiles(inbox)) <= MaxFiles
        /\ Paired(inbox)

\* C39 (receiver/processor hand-off): while the receiver spools and evicts,
\* a run of process-inbox handles only files it listed, and no run ends on
\* a listed file that was evicted before it was read.
C39_HandOff ==
    /\ last.op \in {"moved", "file_failed"} =>
          \E i \in 1..Len(run.files) : run.files[i] = last.file
    /\ last.op # "run_aborted"

-----------------------------------------------------------------------------
(* Claims about the identity of events.                                    *)

\* The four components of an event's identity.
Components(e) ==
    <<Or(e.pk, ""), Or(Or(e.time_utc, e.time_iso), ""),
      Or(EventDesc(e), ""), Or(EventLoc(e), "")>>

\* C40 (distinct events are kept apart): two events of an applied item
\* have the same hash only when their provider key, time, description and
\* location are equal; and after the item is applied, each of its events
\* has an event row of the package with its four components.
C40_DistinctEventsKeptApart ==
    last.op = "apply" =>
        /\ \A i, j \in 1..Len(last.evs) :
              event_hash(last.evs[i]) = event_hash(last.evs[j]) =>
                 Components(last.evs[i]) = Components(last.evs[j])
        /\ \A i \in 1..Len(last.evs) :
              \E r \in events :
                 /\ r.package_id = last.pid
                 /\ Components(r.raw_json) = Components(last.evs[i])

=============================================================================
